---- MODULE Spec2Model ----
(***************************************************************************)
(* Life2LaunchLabs/Backend: chat conversation orchestration, chat session  *)
(* configuration, and course-session progress tracking.                    *)
(*                                                                         *)
(* Ten specifications share the variables:                                 *)
(*   SpecChat     ConversationService.send_message + ChatStreamConsumer    *)
(*   SpecCourse   CourseSession / QuestionResponse with agenda edits       *)
(*   SpecUnlock   CourseSession completion and UserCourseProgress          *)
(*   SpecConfig   ChatSessionService.create_session / update_session_config*)
(*   SpecExpiry   session and message services on unusable sessions        *)
(*   SpecConnect  ChatStreamConsumer.connect                               *)
(*   SpecControl  quick replies of generate_control_data                   *)
(*   SpecOwner    the requests of CourseSessionViewSet                     *)
(*   SpecQuest    enrolling in quest templates (QuestEnrollment)           *)
(*   SpecMilestone  completing milestones (MilestoneProgress)              *)
(***************************************************************************)
EXTENDS Integers, Sequences, FiniteSets, TLC

VARIABLES
    now,          \* wall clock (timezone.now()), in ticks
    sessions,     \* ChatSession table: session_id -> row
    messages,     \* ChatMessage table, in created_at order
    cache,        \* django cache: user message -> cached assistant content length
    consumer,     \* which consumer class serves the socket
    req,          \* the send_message frame being handled
    svc,          \* ConversationService.send_message activation
    ws,           \* consumer position inside handle_send_message
    outbox,       \* frames sent on the socket for the current request
    courses,      \* Course table: id -> [agenda, parent]
    csessions,    \* CourseSession table (sequence of rows)
    responses,    \* QuestionResponse table (set of rows)
    progress,     \* UserCourseProgress table: <<user, course>> -> status
    workers,      \* in-flight get_or_create_active / get_or_create_session requests
    enrollments,  \* QuestEnrollment table (sequence of rows)
    milestones,   \* MilestoneProgress table: <<enrollment, order>> -> row
    enrolling,    \* in-flight enroll requests / enroll_user_in_quest_template calls
    turns,        \* ConversationTurn table (set of rows)
    reply,        \* the last CourseSessionViewSet request and its response
    last          \* outcome of the last completed operation

chatVars   == <<now, sessions, messages, cache, consumer, req, svc, ws, outbox>>
courseVars == <<courses, csessions, responses, progress, workers>>
questVars  == <<enrollments, milestones, enrolling>>
ownerVars  == <<turns, reply>>
vars       == <<now, sessions, messages, cache, consumer, req, svc, ws, outbox,
                courses, csessions, responses, progress, workers,
                enrollments, milestones, enrolling, turns, reply, last>>

-----------------------------------------------------------------------------
(* Bounds of the model *)
MaxTime    == 2     \* clock ticks explored
MaxContent == 41    \* longest assistant content, in characters
MaxRequests == 2    \* send_message frames handled on one connection
MaxCustom  == 1     \* most custom settings passed in one update_session_config call

(* Python values *)
None == "None"
Users == {1, 2}

\* dict helpers
Put(d, k, v) == [x \in (DOMAIN d) \cup {k} |-> IF x = k THEN v ELSE d[x]]
Del(d, k)    == [x \in (DOMAIN d) \ {k} |-> d[x]]
Has(d, k)    == k \in DOMAIN d
EmptyDict    == [x \in {} |-> None]

\* str.strip() on a string given as a sequence of characters
Whitespace == {" ", "\t", "\n", "\r"}
RECURSIVE LStrip(_)
LStrip(s) == IF s # <<>> /\ Head(s) \in Whitespace THEN LStrip(Tail(s)) ELSE s
RECURSIVE RStrip(_)
RStrip(s) == IF s # <<>> /\ s[Len(s)] \in Whitespace THEN RStrip(SubSeq(s, 1, Len(s) - 1)) ELSE s
Strip(s) == RStrip(LStrip(s))

-----------------------------------------------------------------------------
(* apps/chat/presets.py, apps/chat/providers.py                            *)
(* Floats (temperature, top_p, penalties) are kept in hundredths.          *)

Preset(key, provider, model, params, ctx) ==
    [key |-> key,
     model_config |-> [provider |-> provider, model |-> model, parameters |-> params],
     context_config |-> [context_id |-> ctx]]

PRESETS == <<
    Preset("claude_balanced", "anthropic", "claude-3-5-sonnet-20241022",
           [max_tokens |-> 4096, temperature |-> 70, top_p |-> 100], "general"),
    Preset("claude_creative", "anthropic", "claude-3-5-sonnet-20241022",
           [max_tokens |-> 4096, temperature |-> 90, top_p |-> 95], "creative"),
    Preset("claude_coding", "anthropic", "claude-3-5-sonnet-20241022",
           [max_tokens |-> 8192, temperature |-> 30, top_p |-> 100], "coding"),
    Preset("claude_fast", "anthropic", "claude-3-5-haiku-20241022",
           [max_tokens |-> 2048, temperature |-> 70, top_p |-> 100], "general"),
    Preset("gpt4_balanced", "openai", "gpt-4o",
           [max_tokens |-> 4096, temperature |-> 70, top_p |-> 100,
            frequency_penalty |-> 0, presence_penalty |-> 0], "general"),
    Preset("gpt4_creative", "openai", "gpt-4o",
           [max_tokens |-> 4096, temperature |-> 90, top_p |-> 95,
            frequency_penalty |-> 10, presence_penalty |-> 10], "creative"),
    Preset("gpt4_coding", "openai", "gpt-4o",
           [max_tokens |-> 8192, temperature |-> 20, top_p |-> 100,
            frequency_penalty |-> 0, presence_penalty |-> 0], "coding"),
    Preset("gpt4_mini", "openai", "gpt-4o-mini",
           [max_tokens |-> 2048, temperature |-> 70, top_p |-> 100,
            frequency_penalty |-> 0, presence_penalty |-> 0], "general"),
    Preset("gpt_control", "openai", "gpt-4o",
           [max_tokens |-> 1024, temperature |-> 10, top_p |-> 100,
            frequency_penalty |-> 0, presence_penalty |-> 0], "control") >>

PresetKeys == {PRESETS[i].key : i \in DOMAIN PRESETS}

NoPreset == [key |-> None]

\* PresetManager.get_preset: first preset with that key, else None
get_preset(preset_key) ==
    IF \E i \in DOMAIN PRESETS : PRESETS[i].key = preset_key
    THEN PRESETS[CHOOSE i \in DOMAIN PRESETS :
                    /\ PRESETS[i].key = preset_key
                    /\ \A j \in DOMAIN PRESETS : PRESETS[j].key = preset_key => i <= j]
    ELSE NoPreset

ANTHROPIC_SPEC ==
    [supported_models |-> {"claude-3-5-sonnet-20241022", "claude-3-5-haiku-20241022",
                           "claude-3-opus-20240229", "claude-3-sonnet-20240229",
                           "claude-3-haiku-20240307"},
     required_params |-> {"max_tokens"},
     optional_params |-> {"temperature", "top_p", "top_k", "stop_sequences"},
     param_defaults |-> [max_tokens |-> 4096, temperature |-> 70, top_p |-> 100, top_k |-> 0],
     param_ranges |-> [max_tokens |-> [min |-> 1, max |-> 8192],
                       temperature |-> [min |-> 0, max |-> 100],
                       top_p |-> [min |-> 0, max |-> 100],
                       top_k |-> [min |-> 0, max |-> 40]]]

OPENAI_SPEC ==
    [supported_models |-> {"gpt-4o", "gpt-4o-mini", "gpt-4-turbo", "gpt-4", "gpt-3.5-turbo"},
     required_params |-> {"max_tokens"},
     optional_params |-> {"temperature", "top_p", "frequency_penalty",
                          "presence_penalty", "stop"},
     param_defaults |-> [max_tokens |-> 4096, temperature |-> 70, top_p |-> 100,
                         frequency_penalty |-> 0, presence_penalty |-> 0],
     param_ranges |-> [max_tokens |-> [min |-> 1, max |-> 32768],
                       temperature |-> [min |-> 0, max |-> 200],
                       top_p |-> [min |-> 0, max |-> 100],
                       frequency_penalty |-> [min |-> -200, max |-> 200],
                       presence_penalty |-> [min |-> -200, max |-> 200]]]

PROVIDERS == [anthropic |-> ANTHROPIC_SPEC, openai |-> OPENAI_SPEC]

DEFAULT_CONTEXTS == {"general", "coding", "creative"}

\* ProviderConfig.validate_model_config: the set of errors
validate_model_config(model_config) ==
    IF ~Has(model_config, "provider") THEN {"Missing required field: provider"}
    ELSE IF ~Has(PROVIDERS, model_config.provider)
    THEN (IF Has(model_config, "model") THEN {} ELSE {"Missing required field: model"})
         \cup {"Unsupported provider"}
    ELSE
      LET spec   == PROVIDERS[model_config.provider]
          params == IF Has(model_config, "parameters") THEN model_config.parameters
                    ELSE EmptyDict
      IN  (IF Has(model_config, "model") THEN {} ELSE {"Missing required field: model"})
          \cup (IF Has(model_config, "model") /\ model_config.model \notin spec.supported_models
                THEN {"Unsupported model"} ELSE {})
          \cup {"Missing required parameter" : p \in spec.required_params \ DOMAIN params}
          \cup {"Parameter below minimum" :
                  p \in {q \in DOMAIN params \cap DOMAIN spec.param_ranges :
                            params[q] < spec.param_ranges[q].min}}
          \cup {"Parameter above maximum" :
                  p \in {q \in DOMAIN params \cap DOMAIN spec.param_ranges :
                            params[q] > spec.param_ranges[q].max}}

\* ProviderConfig.normalize_model_config: defaults for the missing parameters
normalize_model_config(model_config) ==
    IF ~Has(PROVIDERS, model_config.provider) THEN model_config
    ELSE LET spec == PROVIDERS[model_config.provider]
             old  == model_config.parameters
         IN  [model_config EXCEPT !.parameters =
                [p \in (DOMAIN old) \cup (DOMAIN spec.param_defaults) |->
                    IF p \in DOMAIN old THEN old[p] ELSE spec.param_defaults[p]]]

\* ContextConfig.validate_context_config: the set of errors
\* (instructions are sequences of character sequences; 40 is the length cap)
validate_context_config(context_config) ==
    LET has_context_id    == Has(context_config, "context_id")
        has_custom_prompt == Has(context_config, "custom_system_prompt")
    IN  IF ~has_context_id /\ ~has_custom_prompt
        THEN {"Must provide either 'context_id' or 'custom_system_prompt'"}
        ELSE (IF has_context_id /\ has_custom_prompt THEN {}
              ELSE IF has_context_id
              THEN (IF context_config.context_id \notin DEFAULT_CONTEXTS
                    THEN {"Unknown context_id"} ELSE {})
              ELSE (IF Strip(context_config.custom_system_prompt) = <<>>
                    THEN {"custom_system_prompt must be a non-empty string"} ELSE {}))
             \cup
             (IF Has(context_config, "custom_control_instructions")
              THEN LET ins == context_config.custom_control_instructions
                   IN  {"custom_control_instructions cannot be empty" :
                           i \in {j \in DOMAIN ins : Len(Strip(ins[j])) = 0}}
                       \cup {"custom_control_instructions cannot exceed 40 characters" :
                           i \in {j \in DOMAIN ins : Len(Strip(ins[j])) # 0 /\ Len(ins[j]) > 40}}
              ELSE {})

\* SessionConfigValidator.validate_session_config: the set of errors
validate_session_config(config) ==
    (IF Has(config, "model_config") THEN validate_model_config(config.model_config)
     ELSE {"Missing required field: model_config"})
    \cup (IF Has(config, "context_config") THEN validate_context_config(config.context_config)
          ELSE {"Missing required field: context_config"})
    \cup (IF Has(config, "user_id") THEN {} ELSE {"Missing required field: user_id"})

\* ContextConfig.get_effective_control_instructions
get_effective_control_instructions(context_config) ==
    IF Has(context_config, "custom_control_instructions")
    THEN context_config.custom_control_instructions
    ELSE <<>>


-----------------------------------------------------------------------------
(* apps/chat/models.py, apps/chat/services.py: the ChatSession table       *)

SessionIds == {"s1"}
NoSession  == [exists |-> FALSE]
NoSessions == [sid \in SessionIds |-> NoSession]

\* ChatSession.is_expired
is_expired(row) == now > row.expires_at

\* ChatSession.objects.get(session_id=..., is_active=True) succeeds
ActiveRow(sid) == sid \in SessionIds /\ sessions[sid].exists /\ sessions[sid].is_active

\* create_session lines 64-76: the row ChatSession.objects.create stores
NewSessionRow(user_id, preset, title, expires_at) ==
    [exists |-> TRUE,
     user_id |-> user_id,
     model_config |-> normalize_model_config(preset.model_config),
     context_config |-> preset.context_config,
     title |-> title,
     expires_at |-> expires_at,
     is_active |-> TRUE]

\* ChatSessionService.create_session: <<session_id, errors, table>>
create_session(user_id, preset_key, title, ttl_hours) ==
    LET preset == get_preset(preset_key)
    IN  IF preset = NoPreset THEN <<None, {"Unknown preset key"}, sessions>>
        ELSE
        LET full_config == [model_config |-> preset.model_config,
                            context_config |-> preset.context_config,
                            user_id |-> user_id]
            errors == validate_session_config(full_config)
        IN  IF errors # {} THEN <<None, errors, sessions>>
            ELSE IF user_id \notin Users THEN <<None, {"User does not exist"}, sessions>>
            ELSE LET sid == CHOOSE x \in SessionIds : ~sessions[x].exists
                     row == NewSessionRow(user_id, preset, title, now + ttl_hours)
                 IN  <<sid, {}, [sessions EXCEPT ![sid] = row]>>

\* min/max clamp of update_session_config: max(2, min(5, n))
ClampItems(n) == IF n > 5 THEN 5 ELSE IF n < 2 THEN 2 ELSE n

\* [instr.strip() for instr in custom_control_instructions if instr.strip()]
RECURSIVE FilterInstructions(_)
FilterInstructions(ins) ==
    IF ins = <<>> THEN <<>>
    ELSE IF Strip(Head(ins)) # <<>>
         THEN <<Strip(Head(ins))>> \o FilterInstructions(Tail(ins))
         ELSE FilterInstructions(Tail(ins))

\* update_session_config, lines 144-164: apply the preset, keeping the quick input settings
ApplyPreset(ctx, preset) ==
    LET c1 == preset.context_config
        c2 == IF Has(ctx, "quick_input_generation_instructions")
                 /\ ctx.quick_input_generation_instructions # <<>>
              THEN Put(c1, "quick_input_generation_instructions",
                       ctx.quick_input_generation_instructions)
              ELSE c1
        c3 == IF Has(ctx, "quick_input_min_items")
              THEN Put(c2, "quick_input_min_items", ctx.quick_input_min_items) ELSE c2
    IN  IF Has(ctx, "quick_input_max_items")
        THEN Put(c3, "quick_input_max_items", ctx.quick_input_max_items) ELSE c3

\* update_session_config, lines 166-205: apply the custom settings of the call
\* (a is the dict of the keyword arguments that are not None)
ApplyCustom(ctx, a) ==
    LET c1 == IF Has(a, "custom_system_prompt")
              THEN (IF Strip(a.custom_system_prompt) # <<>>
                    THEN Del(Put(ctx, "custom_system_prompt", a.custom_system_prompt),
                             "context_id")
                    ELSE Del(ctx, "custom_system_prompt"))
              ELSE ctx
        c2 == IF Has(a, "context_id")
              THEN Del(Put(c1, "context_id", a.context_id), "custom_system_prompt")
              ELSE c1
        c3 == IF Has(a, "custom_control_instructions")
              THEN (IF FilterInstructions(a.custom_control_instructions) # <<>>
                    THEN Put(c2, "custom_control_instructions",
                             FilterInstructions(a.custom_control_instructions))
                    ELSE Del(c2, "custom_control_instructions"))
              ELSE c2
        c4 == IF Has(a, "quick_input_generation_instructions")
              THEN (IF Strip(a.quick_input_generation_instructions) # <<>>
                    THEN Put(c3, "quick_input_generation_instructions",
                             Strip(a.quick_input_generation_instructions))
                    ELSE Del(c3, "quick_input_generation_instructions"))
              ELSE c3
        c5 == IF Has(a, "quick_input_min_items")
              THEN Put(c4, "quick_input_min_items", ClampItems(a.quick_input_min_items))
              ELSE c4
    IN  IF Has(a, "quick_input_max_items")
        THEN Put(c5, "quick_input_max_items", ClampItems(a.quick_input_max_items))
        ELSE c5

\* update_session_config, lines 219-228: what session.save() stores
StoreConfig(row, a, new_model_config, new_context_config) ==
    LET r1 == IF Has(a, "preset_key")
              THEN [row EXCEPT !.model_config = normalize_model_config(new_model_config),
                               !.context_config = new_context_config]
              ELSE row
    IN  IF Has(a, "title") /\ a.title # "" THEN [r1 EXCEPT !.title = a.title] ELSE r1

\* ChatSessionService.update_session_config: <<success, errors, table>>
update_session_config(sid, a) ==
    IF ~ActiveRow(sid) THEN <<FALSE, {"Session not found"}, sessions>>
    ELSE IF is_expired(sessions[sid]) THEN <<FALSE, {"Session has expired"}, sessions>>
    ELSE IF Has(a, "preset_key") /\ get_preset(a.preset_key) = NoPreset
    THEN <<FALSE, {"Unknown preset key"}, sessions>>
    ELSE
    LET row == sessions[sid]
        new_model_config == IF Has(a, "preset_key")
                            THEN get_preset(a.preset_key).model_config
                            ELSE row.model_config
        base == IF Has(a, "preset_key")
                THEN ApplyPreset(row.context_config, get_preset(a.preset_key))
                ELSE row.context_config
        new_context_config == ApplyCustom(base, a)
        errors == validate_session_config([user_id |-> row.user_id,
                                           model_config |-> new_model_config,
                                           context_config |-> new_context_config])
    IN  IF errors # {} THEN <<FALSE, errors, sessions>>
        ELSE <<TRUE, {},
               [sessions EXCEPT ![sid] = StoreConfig(row, a, new_model_config,
                                                     new_context_config)]>>

\* ChatSessionService.get_session_config: <<found, table>>; an expired row is deactivated
get_session_config(sid) ==
    IF ~ActiveRow(sid) THEN <<FALSE, sessions>>
    ELSE IF is_expired(sessions[sid])
    THEN <<FALSE, [sessions EXCEPT ![sid].is_active = FALSE]>>
    ELSE <<TRUE, sessions>>


-----------------------------------------------------------------------------
(* Idle values of the three groups of variables                            *)

NoReq     == [message |-> <<>>, request_emote |-> FALSE, request_quick_responses |-> FALSE]
NoControl == [emote |-> None, quick_replies |-> <<>>]
SvcIdle   == [pc |-> "idle", cached |-> FALSE, user_msg |-> FALSE,
              asst |-> FALSE, asst_len |-> 0,
              main |-> "none", main_len |-> 0,
              ctrl |-> "none", ctrl_data |-> NoControl, ctrl_errors |-> {},
              data |-> FALSE, control_data |-> NoControl, errors |-> {}]
WsIdle    == [pc |-> "idle", i |-> 0, handled |-> 0]
NoConsumer == [class |-> "ChatStreamConsumer", user |-> 1]
ChatIdle ==
    /\ now = 0 /\ sessions = NoSessions /\ messages = <<>>
    /\ cache = EmptyDict /\ consumer = NoConsumer /\ req = NoReq
    /\ svc = SvcIdle /\ ws = WsIdle /\ outbox = <<>>
NoReply == [action |-> "none", user |-> 0, pk |-> 0, status |-> "", returned |-> {}]
CourseIdle ==
    /\ courses = EmptyDict /\ csessions = <<>> /\ responses = {}
    /\ progress = EmptyDict /\ workers = EmptyDict
    /\ enrollments = <<>> /\ milestones = EmptyDict /\ enrolling = EmptyDict
    /\ turns = {} /\ reply = NoReply

-----------------------------------------------------------------------------
(* SpecConfig: create_session / update_session_config on the session table *)

\* keyword arguments left at None are absent from the dict of arguments
Absent == [preset_key |-> None, title |-> None,
           custom_system_prompt |-> <<None>>,
           custom_control_instructions |-> << <<None>> >>,
           quick_input_generation_instructions |-> <<None>>,
           context_id |-> None,
           quick_input_min_items |-> -1, quick_input_max_items |-> -1]
MkArgs(full) == [k \in {x \in DOMAIN full : full[x] # Absent[x]} |-> full[k]]

CustomKeys == {"custom_system_prompt", "custom_control_instructions",
               "quick_input_generation_instructions", "context_id",
               "quick_input_min_items", "quick_input_max_items"}

\* the calls explored: any preset_key and title, and up to MaxCustom custom settings
UpdateArgs ==
    {a \in {MkArgs(f) : f \in
        [preset_key : {None, "gpt4_coding", "bogus"},
         title : {None, "Renamed"},
         custom_system_prompt : {<<None>>, <<" ">>, <<"p">>},
         custom_control_instructions : {<< <<None>> >>, << <<" ">>, <<"b", " ">> >>},
         quick_input_generation_instructions : {<<None>>, <<"g", " ">>},
         context_id : {None, "coding"},
         quick_input_min_items : {-1, 1},
         quick_input_max_items : {-1, 9}]} :
       Cardinality(DOMAIN a \cap CustomKeys) <= MaxCustom}

ConfigCreate ==
    /\ \E x \in SessionIds : ~sessions[x].exists
    /\ \E user_id \in Users \cup {3}, preset_key \in PresetKeys \cup {"bogus"} :
         LET r == create_session(user_id, preset_key, "New Chat", 1)
         IN  /\ sessions' = r[3]
             /\ last' = [op |-> "create_session", user_id |-> user_id,
                         preset_key |-> preset_key, session_id |-> r[1], errors |-> r[2]]
    /\ UNCHANGED <<now, messages, cache, consumer, req, svc, ws, outbox>>
    /\ UNCHANGED courseVars /\ UNCHANGED questVars /\ UNCHANGED ownerVars

ConfigUpdate ==
    /\ \E sid \in SessionIds, a \in UpdateArgs :
         LET r == update_session_config(sid, a)
         IN  /\ sessions' = r[3]
             /\ last' = [op |-> "update_session_config", session_id |-> sid, args |-> a,
                         success |-> r[1], errors |-> r[2]]
    /\ UNCHANGED <<now, messages, cache, consumer, req, svc, ws, outbox>>
    /\ UNCHANGED courseVars /\ UNCHANGED questVars /\ UNCHANGED ownerVars

\* time passes
Tick ==
    /\ now < MaxTime
    /\ now' = now + 1
    /\ last' = [op |-> "tick"]
    /\ UNCHANGED <<sessions, messages, cache, consumer, req, svc, ws, outbox>>
    /\ UNCHANGED courseVars /\ UNCHANGED questVars /\ UNCHANGED ownerVars

\* ChatSessionService.deactivate_session
Deactivate ==
    /\ \E sid \in SessionIds :
         /\ sessions[sid].exists /\ sessions[sid].is_active
         /\ sessions' = [sessions EXCEPT ![sid].is_active = FALSE]
    /\ last' = [op |-> "deactivate_session"]
    /\ UNCHANGED <<now, messages, cache, consumer, req, svc, ws, outbox>>
    /\ UNCHANGED courseVars /\ UNCHANGED questVars /\ UNCHANGED ownerVars

\* SessionCleanupService.delete_old_inactive_sessions (messages cascade)
DeleteInactive ==
    /\ \E sid \in SessionIds :
         /\ sessions[sid].exists /\ ~sessions[sid].is_active
         /\ sessions' = [sessions EXCEPT ![sid] = NoSession]
         /\ messages' = SelectSeq(messages, LAMBDA m : m.session_id # sid)
    /\ last' = [op |-> "delete_old_inactive_sessions"]
    /\ UNCHANGED <<now, cache, consumer, req, svc, ws, outbox>>
    /\ UNCHANGED courseVars /\ UNCHANGED questVars /\ UNCHANGED ownerVars

InitConfig == ChatIdle /\ CourseIdle /\ last = [op |-> "none"]
NextConfig == ConfigCreate \/ ConfigUpdate \/ Tick \/ Deactivate \/ DeleteInactive
SpecConfig == InitConfig /\ [][NextConfig]_vars

\* C9 (as claimed): create_session with any key of PRESETS and an existing user
\* returns a session id and no errors, and the session stores the preset's provider,
\* model, parameters and context configuration.
C9_EveryPresetCreatesSession ==
    (last.op = "create_session" /\ last.preset_key \in PresetKeys /\ last.user_id \in Users)
    => /\ last.session_id \in SessionIds
       /\ last.errors = {}
       /\ LET row == sessions[last.session_id]
              p   == get_preset(last.preset_key)
          IN  /\ row.exists /\ row.user_id = last.user_id
              /\ row.model_config.provider = p.model_config.provider
              /\ row.model_config.model = p.model_config.model
              /\ \A k \in DOMAIN p.model_config.parameters :
                    /\ k \in DOMAIN row.model_config.parameters
                    /\ row.model_config.parameters[k] = p.model_config.parameters[k]
              /\ row.context_config = p.context_config

\* what a successful call must leave in context_config for each setting it passes:
\* a non-blank prompt is stored unless context_id is passed too (context_id wins),
\* a blank one is removed; instructions are stored stripped and filtered; the item
\* bounds are stored clamped to 2..5
Reflects(ctx, a) ==
    /\ Has(a, "context_id") =>
          /\ Has(ctx, "context_id") /\ ctx.context_id = a.context_id
          /\ ~Has(ctx, "custom_system_prompt")
    /\ (Has(a, "custom_system_prompt") /\ ~Has(a, "context_id")) =>
          IF Strip(a.custom_system_prompt) # <<>>
          THEN Has(ctx, "custom_system_prompt")
               /\ ctx.custom_system_prompt = a.custom_system_prompt
          ELSE ~Has(ctx, "custom_system_prompt")
    /\ Has(a, "custom_control_instructions") =>
          IF FilterInstructions(a.custom_control_instructions) # <<>>
          THEN Has(ctx, "custom_control_instructions")
               /\ ctx.custom_control_instructions
                    = FilterInstructions(a.custom_control_instructions)
          ELSE ~Has(ctx, "custom_control_instructions")
    /\ Has(a, "quick_input_generation_instructions") =>
          IF Strip(a.quick_input_generation_instructions) # <<>>
          THEN Has(ctx, "quick_input_generation_instructions")
               /\ ctx.quick_input_generation_instructions
                    = Strip(a.quick_input_generation_instructions)
          ELSE ~Has(ctx, "quick_input_generation_instructions")
    /\ Has(a, "quick_input_min_items") =>
          /\ Has(ctx, "quick_input_min_items")
          /\ ctx.quick_input_min_items = ClampItems(a.quick_input_min_items)
    /\ Has(a, "quick_input_max_items") =>
          /\ Has(ctx, "quick_input_max_items")
          /\ ctx.quick_input_max_items = ClampItems(a.quick_input_max_items)

\* C10 (as claimed): after update_session_config returns (True, []), the stored
\* context_config reflects every custom setting of the call, with or without preset_key.
C10_UpdateStoresCustomSettings ==
    (last.op = "update_session_config" /\ last.success)
    => Reflects(sessions[last.session_id].context_config, last.args)


-----------------------------------------------------------------------------
(* apps/chat/services.py ChatMessageService, apps/chat/control_service.py  *)

\* ChatMessageService.add_message, which skips the expiry test
add_message_NoExpiryTest(sid, role) ==
    IF ActiveRow(sid)
    THEN <<TRUE, Append(messages, [session_id |-> sid, role |-> role])>>
    ELSE <<FALSE, messages>>

\* ChatMessageService.add_message: <<message data is not None, table>>
add_message(sid, role) ==
    IF ActiveRow(sid) /\ ~is_expired(sessions[sid])
    THEN <<TRUE, Append(messages, [session_id |-> sid, role |-> role])>>
    ELSE <<FALSE, messages>>

\* ChatMessageService.get_conversation_context returns a list (not None)
get_conversation_context(sid) == ActiveRow(sid) /\ ~is_expired(sessions[sid])

EMOTE_TO_GLYPH == {"joy", "sad", "angry", "thinking", "neutral", "surprised",
                   "confused", "excited"}

\* for reply in quick_replies[:5]: keep the strings of 1..40 characters
RECURSIVE ValidReplies(_)
ValidReplies(rs) ==
    IF rs = <<>> THEN <<>>
    ELSE IF 1 <= Len(Head(rs)) /\ Len(Head(rs)) <= 40
         THEN <<Head(rs)>> \o ValidReplies(Tail(rs))
         ELSE ValidReplies(Tail(rs))

\* ChatControlService._parse_control_response on the tool-call arguments
parse_control_response(control_args, request_emote, request_quick_responses, custom_quick_replies) ==
    [emote |-> IF request_emote
               THEN (IF Has(control_args, "emote")
                     THEN (IF control_args.emote \in EMOTE_TO_GLYPH
                           THEN control_args.emote ELSE "neutral")
                     ELSE "neutral")
               ELSE None,
     quick_replies |->
        IF request_quick_responses
        THEN (IF custom_quick_replies # <<>> THEN custom_quick_replies
              ELSE IF Has(control_args, "quick_replies")
                   THEN ValidReplies(SubSeq(control_args.quick_replies, 1,
                            IF Len(control_args.quick_replies) < 5
                            THEN Len(control_args.quick_replies) ELSE 5))
                   ELSE <<>>)
        ELSE <<>>]

\* what the control model (or the transport) can answer
ControlOutcomes ==
    {[kind |-> "fail", args |-> EmptyDict], [kind |-> "raise", args |-> EmptyDict]}
    \cup {[kind |-> "ok", args |-> a] : a \in
            {EmptyDict,
             [emote |-> "joy", quick_replies |-> << <<"o", "k">>, <<"n", "o">> >>],
             [emote |-> "bogus", quick_replies |-> << <<>>, <<"o", "k">> >>]}}

\* generate_control_data answers from the session's custom instructions, without a request
AnswersFromCustom(context_config, request_emote, request_quick_responses) ==
    /\ get_effective_control_instructions(context_config) # <<>>
    /\ request_quick_responses /\ ~request_emote

\* ChatControlService.generate_control_data: [kind, data, errors]
\* (kind "raise": the coroutine raised; data = NoControl with errors stands for None)
generate_control_data(context_config, request_emote, request_quick_responses, outcome) ==
    LET custom_quick_replies == get_effective_control_instructions(context_config)
    IN  IF ~request_emote /\ ~request_quick_responses
        THEN [kind |-> "done", data |-> NoControl, errors |-> {}]
        ELSE IF AnswersFromCustom(context_config, request_emote, request_quick_responses)
        THEN [kind |-> "done",
              data |-> [emote |-> None, quick_replies |-> custom_quick_replies],
              errors |-> {}]
        ELSE IF outcome.kind = "raise"
        THEN [kind |-> "raised", data |-> NoControl, errors |-> {}]
        ELSE IF outcome.kind = "fail"
        THEN [kind |-> "done", data |-> NoControl, errors |-> {"Control request failed"}]
        ELSE [kind |-> "done",
              data |-> parse_control_response(outcome.args, request_emote,
                                              request_quick_responses, custom_quick_replies),
              errors |-> {}]


-----------------------------------------------------------------------------
(* SpecChat: ChatStreamConsumer.handle_send_message and                    *)
(* ConversationService.send_message, one step per await                    *)

chunk_size == 20
ContentLens == {0, 1, chunk_size, chunk_size + 1, MaxContent}
RawMessages == {<<" ">>, <<"h">>, <<"h", " ">>}
TheSession == "s1"
Requested == req.request_emote \/ req.request_quick_responses

courseUnchanged == UNCHANGED courseVars /\ UNCHANGED questVars /\ UNCHANGED ownerVars

Frame(type) == [type |-> type, chunk_index |-> -1]
ChunkFrame(index) == [type |-> "stream_chunk", chunk_index |-> index]

\* mutant: the loop offset is sent as the chunk index
ChunkIndex_Offset(i) == i

\* 'chunk_index': i // chunk_size
ChunkIndex(i) == i \div chunk_size

\* send_message returns (response_data, errors)
Return(data, errors) == [svc EXCEPT !.pc = "returned", !.data = data, !.errors = errors]

\* ChatStreamConsumer.receive / handle_send_message up to the call of the service
Receive ==
    /\ ws.pc = "idle"
    /\ ws.handled < MaxRequests
    /\ \E message \in RawMessages, request_emote \in BOOLEAN,
          request_quick_responses \in BOOLEAN :
         /\ req' = [message |-> Strip(message), request_emote |-> request_emote,
                    request_quick_responses |-> request_quick_responses]
         /\ IF Strip(message) = <<>>
            THEN /\ outbox' = <<Frame("error")>>
                 /\ svc' = SvcIdle
                 /\ ws' = [WsIdle EXCEPT !.handled = ws.handled + 1]
            ELSE /\ outbox' = <<Frame("message_received"), Frame("typing_indicator")>>
                 /\ svc' = [SvcIdle EXCEPT !.pc = "start"]
                 /\ ws' = [WsIdle EXCEPT !.pc = "await_service",
                                         !.handled = ws.handled + 1]
    /\ UNCHANGED <<now, sessions, messages, cache, consumer, last>>
    /\ courseUnchanged

\* send_message lines 50-72: session lookup, ownership, cache lookup
SvcStart ==
    /\ svc.pc = "start"
    /\ LET r == get_session_config(TheSession)
       IN  /\ sessions' = r[2]
           /\ svc' = IF ~r[1] THEN Return(FALSE, {"Session not found or expired"})
                     ELSE IF sessions[TheSession].user_id # consumer.user
                     THEN Return(FALSE, {"Access denied to this session"})
                     ELSE IF Has(cache, req.message)
                     THEN [svc EXCEPT !.pc = "cached_user", !.cached = TRUE]
                     ELSE [svc EXCEPT !.pc = "store_user"]
    /\ UNCHANGED <<now, messages, cache, consumer, req, ws, outbox, last>>
    /\ courseUnchanged

\* send_message lines 74-80: cache hit, store the user message
SvcCachedUser ==
    /\ svc.pc = "cached_user"
    /\ LET r == add_message(TheSession, "user")
       IN  /\ messages' = r[2]
           /\ svc' = [svc EXCEPT !.pc = "cached_assistant", !.user_msg = r[1]]
    /\ UNCHANGED <<now, sessions, cache, consumer, req, ws, outbox, last>>
    /\ courseUnchanged

\* send_message lines 82-109 and 111-128 without control: store the cached assistant
\* message, then make the control request if one is asked for
SvcCachedAssistant ==
    /\ svc.pc = "cached_assistant"
    /\ LET r  == add_message(TheSession, "assistant")
           s1 == [svc EXCEPT !.asst = r[1], !.asst_len = cache[req.message]]
       IN  /\ messages' = r[2]
           /\ svc' = IF Requested
                     THEN [s1 EXCEPT !.pc = "cached_control", !.ctrl = "pending"]
                     ELSE [s1 EXCEPT !.pc = "returned", !.data = TRUE, !.errors = {}]
    /\ UNCHANGED <<now, sessions, cache, consumer, req, ws, outbox, last>>
    /\ courseUnchanged

\* the control coroutine finishes
CtrlFinish ==
    /\ svc.ctrl = "pending"
    /\ \E outcome \in ControlOutcomes :
         LET r == generate_control_data(sessions[TheSession].context_config,
                     req.request_emote, req.request_quick_responses, outcome)
         IN  svc' = [svc EXCEPT !.ctrl = r.kind, !.ctrl_data = r.data,
                                !.ctrl_errors = r.errors]
    /\ UNCHANGED <<now, sessions, messages, cache, consumer, req, ws, outbox, last>>
    /\ courseUnchanged

\* send_message lines 103-128 (and 300-301): the awaited control call returns
SvcCachedReturn ==
    /\ svc.pc = "cached_control"
    /\ svc.ctrl # "pending"
    /\ svc' = IF svc.ctrl = "raised"
              THEN Return(FALSE, {"Conversation service error"})
              ELSE [Return(TRUE, svc.ctrl_errors) EXCEPT !.control_data = svc.ctrl_data]
    /\ UNCHANGED <<now, sessions, messages, cache, consumer, req, ws, outbox, last>>
    /\ courseUnchanged

\* send_message lines 130-149: pipeline, store the user message
SvcStoreUser ==
    /\ svc.pc = "store_user"
    /\ LET r == add_message(TheSession, "user")
       IN  /\ messages' = r[2]
           /\ svc' = IF r[1] THEN [svc EXCEPT !.pc = "build", !.user_msg = TRUE]
                     ELSE Return(FALSE, {"Failed to store user message"})
    /\ UNCHANGED <<now, sessions, cache, consumer, req, ws, outbox, last>>
    /\ courseUnchanged

\* send_message lines 151-197: build the context, start the main request and, if
\* asked for, the control request
SvcBuild ==
    /\ svc.pc = "build"
    /\ svc' = IF ~get_conversation_context(TheSession)
              THEN Return(FALSE, {"Failed to build conversation context"})
              ELSE [svc EXCEPT !.pc = "gather", !.main = "pending",
                               !.ctrl = IF Requested THEN "pending" ELSE "none"]
    /\ UNCHANGED <<now, sessions, messages, cache, consumer, req, ws, outbox, last>>
    /\ courseUnchanged

\* _send_to_llm finishes: a response (success or not) or an exception
MainFinish ==
    /\ svc.main = "pending"
    /\ \/ \E n \in ContentLens : svc' = [svc EXCEPT !.main = "ok", !.main_len = n]
       \/ svc' = [svc EXCEPT !.main = "fail"]
       \/ svc' = [svc EXCEPT !.main = "raised"]
    /\ UNCHANGED <<now, sessions, messages, cache, consumer, req, ws, outbox, last>>
    /\ courseUnchanged

\* mutant: the join waits for the main request only
GatherDone_MainOnly == svc.main # "pending"

\* asyncio.gather(*tasks, return_exceptions=True) has every result
GatherDone == svc.main # "pending" /\ svc.ctrl # "pending"

\* send_message lines 198-298: after the gather
SvcJoin ==
    /\ svc.pc = "gather"
    /\ GatherDone
    /\ LET control_errors == IF svc.ctrl = "raised" THEN {"Control request failed"}
                             ELSE IF svc.ctrl = "done" THEN svc.ctrl_errors ELSE {}
           control_data   == IF svc.ctrl = "done" THEN svc.ctrl_data ELSE NoControl
       IN  IF svc.main = "ok"
           THEN LET r == add_message(TheSession, "assistant")
                IN  /\ messages' = r[2]
                    /\ IF r[1]
                       THEN /\ cache' = Put(cache, req.message, svc.main_len)
                            /\ svc' = [Return(TRUE, control_errors) EXCEPT
                                          !.asst = TRUE, !.asst_len = svc.main_len,
                                          !.control_data = control_data]
                       ELSE /\ cache' = cache
                            /\ svc' = Return(FALSE, {"Failed to store assistant response"})
           ELSE IF svc.main = "fail"
           THEN /\ messages' = add_message(TheSession, "system")[2]
                /\ cache' = cache
                /\ svc' = Return(FALSE, {"LLM request failed"})
           ELSE /\ svc' = Return(FALSE, {"LLM request failed"})
                /\ UNCHANGED <<messages, cache>>
    /\ UNCHANGED <<now, sessions, consumer, req, ws, outbox, last>>
    /\ courseUnchanged


\* handle_send_message lines 123-125 / 298-307: the service has answered
WsServiceReturned ==
    /\ ws.pc = "await_service"
    /\ svc.pc = "returned"
    /\ IF svc.errors # {}
       THEN /\ outbox' = outbox \o <<Frame("error"), Frame("typing_indicator")>>
            /\ ws' = [ws EXCEPT !.pc = "idle"]
       ELSE /\ outbox' = IF consumer.class = "ChatStreamConsumerWithChunking"
                         THEN Append(outbox, Frame("user_message_stored"))
                         ELSE outbox
            /\ ws' = [ws EXCEPT !.pc = "emote"]
    /\ UNCHANGED <<now, sessions, messages, cache, consumer, req, svc, last>>
    /\ courseUnchanged

\* _send_staged_response stage 1 (lines 148-162 / 330-344)
WsEmote ==
    /\ ws.pc = "emote"
    /\ outbox' = IF req.request_emote /\ svc.control_data.emote # None
                 THEN Append(outbox, Frame("emote"))
                 ELSE outbox
    /\ ws' = [ws EXCEPT !.pc = "stream_start"]
    /\ UNCHANGED <<now, sessions, messages, cache, consumer, req, svc, last>>
    /\ courseUnchanged

\* stage 2, stream_start (lines 165-173 / 347-355); an assistant_message of None
\* raises TypeError, which handle_send_message answers with an error frame
WsStreamStart ==
    /\ ws.pc = "stream_start"
    /\ IF svc.asst
       THEN /\ outbox' = Append(outbox, Frame("stream_start"))
            /\ ws' = [ws EXCEPT !.pc = "chunks", !.i = 0]
       ELSE /\ outbox' = (IF consumer.class = "ChatStreamConsumer"
                          THEN Append(outbox, Frame("stream_start")) ELSE outbox)
                         \o <<Frame("error"), Frame("typing_indicator")>>
            /\ ws' = [ws EXCEPT !.pc = "idle"]
    /\ UNCHANGED <<now, sessions, messages, cache, consumer, req, svc, last>>
    /\ courseUnchanged

\* stage 2, one pass of the chunk loop (lines 175-183 / 358-368)
WsChunk ==
    /\ ws.pc = "chunks"
    /\ ws.i < svc.asst_len
    /\ outbox' = Append(outbox, ChunkFrame(ChunkIndex(ws.i)))
    /\ ws' = [ws EXCEPT !.i = ws.i + chunk_size]
    /\ UNCHANGED <<now, sessions, messages, cache, consumer, req, svc, last>>
    /\ courseUnchanged

\* stage 2, stream_complete after the loop (lines 185-194 / 370-378)
WsComplete ==
    /\ ws.pc = "chunks"
    /\ ws.i >= svc.asst_len
    /\ outbox' = Append(outbox, Frame("stream_complete"))
    /\ ws' = [ws EXCEPT !.pc = "quick"]
    /\ UNCHANGED <<now, sessions, messages, cache, consumer, req, svc, last>>
    /\ courseUnchanged

\* stage 3 and the finally clause (lines 196-202 / 380-386, 133-139)
WsQuick ==
    /\ ws.pc = "quick"
    /\ outbox' = (IF req.request_quick_responses /\ svc.control_data.quick_replies # <<>>
                  THEN Append(outbox, Frame("quick_responses"))
                  ELSE outbox)
                 \o <<Frame("typing_indicator")>>
    /\ ws' = [ws EXCEPT !.pc = "idle"]
    /\ UNCHANGED <<now, sessions, messages, cache, consumer, req, svc, last>>
    /\ courseUnchanged

\* time passes while the handler awaits
ChatTick ==
    /\ now < MaxTime
    /\ now' = now + 1
    /\ UNCHANGED <<sessions, messages, cache, consumer, req, svc, ws, outbox, last>>
    /\ courseUnchanged

\* a connected consumer: connect() accepted, so the session is the user's own
InitChat ==
    /\ now = 0
    /\ \E owner \in Users, class \in {"ChatStreamConsumer", "ChatStreamConsumerWithChunking"},
          custom \in BOOLEAN :
         /\ consumer = [class |-> class, user |-> owner]
         /\ sessions = [sid \in SessionIds |->
               LET row == NewSessionRow(owner, get_preset("claude_balanced"), "New Chat", 1)
               IN  IF custom
                   THEN [row EXCEPT !.context_config =
                            Put(row.context_config, "custom_control_instructions",
                                << <<"y">>, <<"n">> >>)]
                   ELSE row]
    /\ messages = <<>> /\ cache = EmptyDict /\ req = NoReq
    /\ svc = SvcIdle /\ ws = WsIdle /\ outbox = <<>>
    /\ CourseIdle
    /\ last = [op |-> "none"]

NextChat ==
    \/ Receive \/ SvcStart \/ SvcCachedUser \/ SvcCachedAssistant \/ CtrlFinish
    \/ SvcCachedReturn \/ SvcStoreUser \/ SvcBuild \/ MainFinish \/ SvcJoin
    \/ WsServiceReturned \/ WsEmote \/ WsStreamStart \/ WsChunk \/ WsComplete
    \/ WsQuick \/ ChatTick

SpecChat == InitChat /\ [][NextChat]_vars


-----------------------------------------------------------------------------
(* Claims on SpecChat                                                      *)

Pos(type) == {k \in DOMAIN outbox : outbox[k].type = type}
ChunksSent == SelectSeq(outbox, LAMBDA f : f.type = "stream_chunk")
ChunksOf(len) == (len + chunk_size - 1) \div chunk_size
AnsweredOk == svc.pc = "returned" /\ svc.errors = {}

\* C1: for a send_message answered without errors the staged frames go out in a fixed
\* order: emote (only if requested and present) before stream_start, stream_start
\* before every stream_chunk, chunk_index 0, 1, 2, ... without gaps, stream_complete
\* after the last chunk, quick_responses (only if requested and non-empty) after
\* stream_complete.
C1_StagedOrder ==
    /\ \A t \in {"emote", "stream_start", "stream_complete", "quick_responses"} :
          Cardinality(Pos(t)) <= 1
    /\ \A t \in {"emote", "stream_start", "stream_chunk", "stream_complete",
                 "quick_responses"} : Pos(t) # {} => AnsweredOk
    /\ \A e \in Pos("emote"), st \in Pos("stream_start") : e < st
    /\ Pos("emote") # {} => req.request_emote /\ svc.control_data.emote # None
    /\ (Pos("stream_start") # {} /\ req.request_emote /\ svc.control_data.emote # None)
          => Pos("emote") # {}
    /\ \A c \in Pos("stream_chunk") : \E st \in Pos("stream_start") : st < c
    /\ \A k \in DOMAIN ChunksSent : ChunksSent[k].chunk_index = k - 1
    /\ \A f \in Pos("stream_complete") :
          /\ \E st \in Pos("stream_start") : st < f
          /\ \A c \in Pos("stream_chunk") : c < f
          /\ Len(ChunksSent) = ChunksOf(svc.asst_len)
    /\ \A q \in Pos("quick_responses") : \E f \in Pos("stream_complete") : f < q
    /\ Pos("quick_responses") # {}
          => req.request_quick_responses /\ svc.control_data.quick_replies # <<>>
    /\ (ws.pc = "idle" /\ AnsweredOk /\ svc.asst)
          => /\ Pos("stream_complete") # {}
             /\ (req.request_quick_responses /\ svc.control_data.quick_replies # <<>>)
                   => Pos("quick_responses") # {}

C1_Witness ==
    /\ ws.pc = "idle" /\ AnsweredOk
    /\ Pos("emote") # {} /\ Pos("quick_responses") # {} /\ Pos("stream_complete") # {}
    /\ Len(ChunksSent) >= 3

\* C2 (as claimed): with a control request, the assistant message is stored and the
\* result returned only after the main request and the control request have both
\* finished, and a failed or raising main request gives (None, errors).
C2_StoredAndReturnedAfterBoth ==
    Requested =>
      /\ (svc.asst \/ svc.pc = "returned")
            => (svc.main # "pending" /\ svc.ctrl # "pending")
      /\ (svc.pc = "returned" /\ svc.main \in {"fail", "raised"})
            => (~svc.data /\ svc.errors # {})

\* C2 (amended): with a control request, the result is returned only after every
\* request made has finished; when the main request is made (no cache hit) the
\* assistant message is stored only after both have finished; a failed or raising
\* main request gives (None, errors). On a cache hit the cached assistant message is
\* stored before the control request is made.
C2_ReturnedAfterBoth ==
    Requested =>
      /\ svc.pc = "returned" => (svc.main # "pending" /\ svc.ctrl # "pending")
      /\ (svc.pc = "returned" /\ svc.main # "none") => svc.ctrl \in {"done", "raised"}
      /\ (svc.asst /\ ~svc.cached) => (svc.main = "ok" /\ svc.ctrl \in {"done", "raised"})
      /\ (svc.pc = "returned" /\ svc.main \in {"fail", "raised"})
            => (~svc.data /\ svc.errors # {})

C2_Witness ==
    /\ Requested /\ svc.pc = "returned" /\ ~svc.cached
    /\ svc.asst /\ svc.main = "ok" /\ svc.ctrl = "done" /\ svc.data

\* C3 (as claimed): whenever send_message returns a non-empty errors list, the
\* returned response_data is None.
C3_ErrorsImplyNoData ==
    (svc.pc = "returned" /\ svc.errors # {}) => ~svc.data

-----------------------------------------------------------------------------
(* apps/responses/utils.py: the agenda markdown and its parser.            *)
(* A Python str is the sequence of its characters; Course.agenda is        *)
(* nullable, so an agenda is [null, text].                                 *)

\* str.split(sep)
RECURSIVE Split(_, _)
Split(s, sep) ==
    IF \A i \in 1..Len(s) : s[i] # sep THEN <<s>>
    ELSE LET i == CHOOSE i \in 1..Len(s) : s[i] = sep /\ \A j \in 1..(i - 1) : s[j] # sep
         IN  <<SubSeq(s, 1, i - 1)>> \o Split(SubSeq(s, i + 1, Len(s)), sep)

\* sep.join(parts)
RECURSIVE Join(_, _)
Join(parts, sep) ==
    IF parts = <<>> THEN <<>>
    ELSE IF Len(parts) = 1 THEN Head(parts)
    ELSE Head(parts) \o <<sep>> \o Join(Tail(parts), sep)

\* str.startswith(prefix)
StartsWith(s, prefix) == Len(s) >= Len(prefix) /\ SubSeq(s, 1, Len(prefix)) = prefix

Digits == <<"0", "1", "2", "3", "4", "5", "6", "7", "8", "9">>
UpperCase == <<"A", "B", "C", "D", "E", "F", "G", "H", "I", "J", "K", "L", "M",
               "N", "O", "P", "Q", "R", "S", "T", "U", "V", "W", "X", "Y", "Z">>
LowerCase == <<"a", "b", "c", "d", "e", "f", "g", "h", "i", "j", "k", "l", "m",
               "n", "o", "p", "q", "r", "s", "t", "u", "v", "w", "x", "y", "z">>
Range(s) == {s[i] : i \in DOMAIN s}
IsDigit(c) == c \in Range(Digits)

\* int(digits)
RECURSIVE ToInt(_)
ToInt(ds) ==
    IF ds = <<>> THEN 0
    ELSE ToInt(SubSeq(ds, 1, Len(ds) - 1)) * 10
         + ((CHOOSE i \in DOMAIN Digits : Digits[i] = ds[Len(ds)]) - 1)

\* str.lower()
LowerChar(c) ==
    IF c \in Range(UpperCase)
    THEN LowerCase[CHOOSE i \in DOMAIN UpperCase : UpperCase[i] = c]
    ELSE c
Lower(s) == [i \in DOMAIN s |-> LowerChar(s[i])]

\* re.sub(r'\s+', '_', s)
RECURSIVE CollapseWhitespace(_)
CollapseWhitespace(s) ==
    IF s = <<>> THEN <<>>
    ELSE IF Head(s) \in Whitespace THEN <<"_">> \o CollapseWhitespace(LStrip(Tail(s)))
    ELSE <<Head(s)>> \o CollapseWhitespace(Tail(s))

\* str.strip('_')
RECURSIVE StripUnderscores(_)
StripUnderscores(s) ==
    IF s # <<>> /\ Head(s) = "_" THEN StripUnderscores(Tail(s))
    ELSE IF s # <<>> /\ s[Len(s)] = "_" THEN StripUnderscores(SubSeq(s, 1, Len(s) - 1))
    ELSE s

\* generate_question_id(title)
generate_question_id(title) ==
    LET kept == SelectSeq(Lower(title),
                          LAMBDA c : c \in Range(LowerCase) \cup Range(UpperCase)
                                           \cup Range(Digits) \cup Whitespace)
    IN  StripUnderscores(CollapseWhitespace(kept))

\* re.match(r'^### (\d+)\. (.+)$', line)
NoMatch == [matched |-> FALSE, number |-> 0, title |-> <<>>]
ItemMatch(line) ==
    IF ~StartsWith(line, <<"#", "#", "#", " ">>) THEN NoMatch
    ELSE LET rest  == SubSeq(line, 5, Len(line))
             n     == CHOOSE n \in 0..Len(rest) :
                          /\ \A i \in 1..n : IsDigit(rest[i])
                          /\ (n = Len(rest) \/ ~IsDigit(rest[n + 1]))
             after == SubSeq(rest, n + 1, Len(rest))
         IN  IF /\ n >= 1
                /\ StartsWith(after, <<".", " ">>)
                /\ Len(after) >= 3
                /\ \A i \in 3..Len(after) : after[i] # "\n"
             THEN [matched |-> TRUE, number |-> ToInt(SubSeq(rest, 1, n)),
                   title |-> SubSeq(after, 3, Len(after))]
             ELSE NoMatch

\* list.sort(key=lambda x: x['number']): stable, ascending
RECURSIVE InsertByNumber(_, _)
InsertByNumber(sorted, item) ==
    IF sorted = <<>> THEN <<item>>
    ELSE IF sorted[Len(sorted)].number <= item.number THEN Append(sorted, item)
    ELSE Append(InsertByNumber(SubSeq(sorted, 1, Len(sorted) - 1), item),
                sorted[Len(sorted)])
RECURSIVE SortByNumber(_)
SortByNumber(items) ==
    IF items = <<>> THEN <<>>
    ELSE InsertByNumber(SortByNumber(SubSeq(items, 1, Len(items) - 1)), items[Len(items)])

\* the loop of parse_agenda_items over the lines
RECURSIVE ParseLines(_, _, _, _)
ParseLines(lines, current_section, about_lines, items) ==
    IF lines = <<>> THEN [about_lines |-> about_lines, items |-> items]
    ELSE
      LET line == Strip(Head(lines))
          rest == Tail(lines)
      IN  IF line = <<>> THEN ParseLines(rest, current_section, about_lines, items)
          ELSE IF StartsWith(line, <<"#", "#", " ", "A", "b", "o", "u", "t">>)
               THEN ParseLines(rest, "about", about_lines, items)
          ELSE IF StartsWith(line, <<"#", "#", " ", "I", "t", "e", "m", "s">>)
               THEN ParseLines(rest, "items", about_lines, items)
          ELSE IF StartsWith(line, <<"#", "#">>) /\ ~StartsWith(line, <<"#", "#", "#">>)
               THEN ParseLines(rest, None, about_lines, items)
          ELSE IF StartsWith(line, <<"#", " ">>) /\ ~StartsWith(line, <<"#", "#">>)
               THEN ParseLines(rest, None, about_lines, items)
          ELSE IF current_section = "about"
               THEN ParseLines(rest, current_section,
                               IF ~StartsWith(line, <<"#">>)
                               THEN Append(about_lines, line) ELSE about_lines,
                               items)
          ELSE IF current_section = "items"
               THEN LET match == ItemMatch(line)
                    IN  ParseLines(rest, current_section, about_lines,
                                   IF match.matched
                                   THEN Append(items,
                                               [number |-> match.number,
                                                title |-> match.title,
                                                question_id |-> generate_question_id(match.title),
                                                description |-> <<>>])
                                   ELSE items)
          ELSE ParseLines(rest, current_section, about_lines, items)

\* `not agenda_content`
Falsy(agenda) == agenda.null \/ agenda.text = <<>>

\* parse_agenda_items(agenda_content)
parse_agenda_items(agenda) ==
    IF Falsy(agenda) THEN [about |-> <<>>, items |-> <<>>]
    ELSE LET parsed == ParseLines(Split(agenda.text, "\n"), None, <<>>, <<>>)
         IN  [about |-> Strip(Join(parsed.about_lines, "\n")),
              items |-> SortByNumber(parsed.items)]

\* generate_agenda_hash(agenda_content): '' for no content, else the SHA-256 digest,
\* kept as the tagged content (distinct contents have distinct digests)
generate_agenda_hash(agenda) ==
    IF Falsy(agenda) THEN <<>> ELSE <<"sha256">> \o agenda.text

\* agendas a course is given
AgendaTest ==
    <<"#", " ", "A", "g", "e", "n", "d", "a", "\n", "\n", "#", "#", " ", "A",
      "b", "o", "u", "t", "\n", "T", " ", "a", ".", "\n", "\n", "#", "#",
      " ", "I", "t", "e", "m", "s", "\n", "#", "#", "#", " ", "1", ".", " ",
      "T", "e", "s", "t", " ", "Q", "\n", "W", "h", "a", "t", "?", " ", "(",
      "s", "h", "o", "r", "t", ")", "\n", "\n", "#", "#", "#", " ", "2", ".",
      " ", "M", "o", "r", "e">>
AgendaTricky ==
    <<"#", "#", " ", "I", "t", "e", "m", "s", "\n", " ", " ", "#", "#", "#",
      " ", "0", "2", ".", " ", "B", "-", "s", "i", "d", "e", " ", "\n", "#",
      "#", "#", "3", ".", " ", "x", "\n", "#", "#", "#", " ", "4", ".", "\n",
      "#", "#", " ", "N", "o", "t", "e", "s", "\n", "#", "#", "#", " ", "5",
      ".", " ", "C">>
AgendaAbout ==
    <<"#", "#", " ", "A", "b", "o", "u", "t", "\n", "#", " ", "x", "\n", "h",
      "i">>
AgendaNone  == [null |-> TRUE, text |-> <<>>]
AgendaEmpty == [null |-> FALSE, text |-> <<>>]
Agendas ==
    {AgendaNone, AgendaEmpty} \cup
    {[null |-> FALSE, text |-> t] : t \in {AgendaTest, AgendaTricky, AgendaAbout}}

-----------------------------------------------------------------------------
(* SpecCourse: apps/responses (CourseSession, QuestionResponse),           *)
(* apps/courses (Course, UserCourseProgress) and the two views that get or *)
(* create the active session.                                              *)

MaxSessions == 2    \* CourseSession rows created
MaxQuestion == 2    \* highest question_number a response is logged for
MaxEdits    == 1    \* edits of course agendas

\* the course tree: b is the child of a, c the child of b
Courses == {"a", "b", "c"}
NoParent == ""
CourseParent(c) == IF c = "b" THEN "a" ELSE IF c = "c" THEN "b" ELSE NoParent
Anonymous == 0
RequestWorkers == {"w1", "w2"}
WorkerIdle == [pc |-> "idle", user |-> Anonymous, course |-> "", character |-> "minu"]

\* the requests made: each of user, course and character varies, and the course id
\* may be missing or unknown and the chat user unauthenticated
SessionRequests ==
    {[user |-> 1, course_id |-> "a", character |-> "minu"],
     [user |-> 2, course_id |-> "c", character |-> "kai"],
     [user |-> 1, course_id |-> "zz", character |-> "minu"],
     [user |-> 1, course_id |-> "", character |-> "minu"],
     [user |-> Anonymous, course_id |-> "a", character |-> "minu"]}

\* course.children.all()
children(course) == {c \in DOMAIN courses : courses[c].parent = course}

\* a float that is (n / d) * 100, kept as the exact fraction
Percent(n, d) == [num |-> n * 100, den |-> d]
Zero == [num |-> 0, den |-> 1]
AtLeast100(p) == p.num >= 100 * p.den

\* CourseSession(user=..., course=..., character_used=..., status='active') before save
NewCourseSession(user, course, character) ==
    [user |-> user, course |-> course, character_used |-> character,
     status |-> "active", completed_at |-> -1,
     agenda_version_hash |-> <<>>,
     agenda_snapshot |-> [null |-> TRUE, about |-> <<>>, items |-> <<>>],
     completion_percentage |-> Zero, total_questions |-> -1, answered_questions |-> 0]

\* CourseSession._parse_agenda_to_json
parse_agenda_to_json(row) ==
    LET parsed == parse_agenda_items(courses[row.course].agenda)
    IN  [null |-> FALSE, about |-> parsed.about, items |-> parsed.items]

\* CourseSession.save: the row as written to the table
CourseSession_save(row) ==
    IF row.agenda_version_hash = <<>> /\ row.course # ""
    THEN LET snapshot == parse_agenda_to_json(row)
         IN  [row EXCEPT !.agenda_version_hash =
                             generate_agenda_hash(courses[row.course].agenda),
                         !.agenda_snapshot = snapshot,
                         !.total_questions = Len(snapshot.items)]
    ELSE row

\* the child loop of _update_user_course_progress, with every child made 'open'
UnlockChild_Overwrite(table, key) ==
    [status |-> "open", completed_at |-> -1]

\* the child loop of CourseSession._update_user_course_progress, for one child
UnlockChild(table, key) ==
    IF key \notin DOMAIN table THEN [status |-> "open", completed_at |-> -1]
    ELSE IF table[key].status = "locked" THEN [table[key] EXCEPT !.status = "open"]
    ELSE table[key]

\* CourseSession._update_user_course_progress
update_user_course_progress(table, user, course) ==
    LET own  == <<user, course>>
        done == IF own \notin DOMAIN table \/ table[own].status # "complete"
                THEN Put(table, own, [status |-> "complete", completed_at |-> now])
                ELSE table
        kids == {<<user, c>> : c \in children(course)}
    IN  [k \in (DOMAIN done) \cup kids |->
            IF k \in kids THEN UnlockChild(done, k) ELSE done[k]]

\* self.responses.filter(status='complete').count()
CompleteCount(table, sid) ==
    Cardinality({r \in table : r.session = sid /\ r.status = "complete"})

\* the test of update_progress that marks the session completed
Completes(row) == AtLeast100(row.completion_percentage) /\ row.status = "active"

\* CourseSession.update_progress, up to its save: the row with the new progress
Recalculated(row, completed_responses) ==
    IF row.total_questions = 0
    THEN [row EXCEPT !.completion_percentage = Zero]
    ELSE [row EXCEPT !.completion_percentage =
                         Percent(completed_responses, row.total_questions),
                     !.answered_questions = completed_responses]

\* CourseSession.update_progress on session sid, given the response table
update_progress(sid, table) ==
    LET row == Recalculated(csessions[sid], CompleteCount(table, sid))
    IN  IF Completes(row)
        THEN [row |-> CourseSession_save([row EXCEPT !.status = "completed",
                                                     !.completed_at = now]),
              progress |-> update_user_course_progress(progress, row.user, row.course),
              completed |-> TRUE]
        ELSE [row |-> CourseSession_save(row), progress |-> progress,
              completed |-> FALSE]

\* QuestionResponse.save of (session sid, question_number qn) with the given status,
\* creating the row or updating the one the unique key names
QuestionResponse_save(sid, qn, status) ==
    LET old   == {r \in responses : r.session = sid /\ r.question_number = qn}
        was   == IF old = {} THEN -1 ELSE (CHOOSE r \in old : TRUE).completed_at
        saved == [session |-> sid, question_number |-> qn, status |-> status,
                  completed_at |-> IF status = "complete" /\ was = -1 THEN now ELSE was]
        table == (responses \ old) \cup {saved}
        out   == update_progress(sid, table)
    IN  /\ responses' = table
        /\ csessions' = [csessions EXCEPT ![sid] = out.row]
        /\ progress' = out.progress
        /\ last' = [op |-> "save_response", sid |-> sid, created |-> old = {},
                    completed |-> out.completed]

chatUnchanged == UNCHANGED chatVars /\ UNCHANGED questVars /\ UNCHANGED ownerVars

\* the active session of (user, course, character), newest first: .filter(...).first()
ActiveSessions(user, course, character) ==
    {i \in DOMAIN csessions :
        /\ csessions[i].user = user /\ csessions[i].course = course
        /\ csessions[i].character_used = character /\ csessions[i].status = "active"}
FirstActive(user, course, character) ==
    CHOOSE i \in ActiveSessions(user, course, character) :
        \A j \in ActiveSessions(user, course, character) : j <= i

\* rows already created plus rows a request is about to create
Reserved == Len(csessions) + Cardinality({w \in RequestWorkers : workers[w].pc = "create"})

\* get_or_create_active (REST) / get_or_create_session (chat), up to the lookup
\* of the active session
GetOrCreateLookup(w) ==
    /\ workers[w].pc = "idle"
    /\ Reserved < MaxSessions
    /\ \E view \in {"rest", "chat"}, r \in SessionRequests :
        LET user == r.user  course_id == r.course_id  character == r.character IN
         /\ (view = "rest") => user # Anonymous
         /\ IF course_id = "" \/ user = Anonymous \/ course_id \notin DOMAIN courses
            THEN /\ workers' = workers
                 /\ last' = [op |-> "get_or_create", sid |-> 0, created |-> FALSE,
                             completed |-> FALSE]
            ELSE IF ActiveSessions(user, course_id, character) # {}
            THEN /\ workers' = workers
                 /\ last' = [op |-> "get_or_create",
                             sid |-> FirstActive(user, course_id, character),
                             created |-> FALSE, completed |-> FALSE]
            ELSE /\ workers' = [workers EXCEPT ![w] =
                                    [pc |-> "create", user |-> user,
                                     course |-> course_id, character |-> character]]
                 /\ last' = last
    /\ UNCHANGED <<courses, csessions, responses, progress>>
    /\ chatUnchanged

\* CourseSession.objects.create(...) of the same request
GetOrCreateCreate(w) ==
    /\ workers[w].pc = "create"
    /\ csessions' = Append(csessions,
                           CourseSession_save(NewCourseSession(workers[w].user,
                                                               workers[w].course,
                                                               workers[w].character)))
    /\ workers' = [workers EXCEPT ![w] = WorkerIdle]
    /\ last' = [op |-> "get_or_create", sid |-> Len(csessions) + 1, created |-> TRUE,
                completed |-> FALSE]
    /\ UNCHANGED <<courses, responses, progress>>
    /\ chatUnchanged

\* CourseSessionViewSet.log_response
LogResponse ==
    \E sid \in DOMAIN csessions, question_number \in 0..MaxQuestion :
        /\ IF question_number = 0
           THEN /\ UNCHANGED <<csessions, responses, progress>>
                /\ last' = [op |-> "rejected", sid |-> sid, created |-> FALSE,
                            completed |-> FALSE]
           ELSE QuestionResponse_save(sid, question_number, "complete")
        /\ UNCHANGED <<courses, workers>>
        /\ chatUnchanged

\* ChatView.log_question_response for one completed item
LogQuestionResponse ==
    \E sid \in DOMAIN csessions, question_number \in 1..MaxQuestion :
        /\ csessions[sid].status = "active"
        /\ IF \E i \in DOMAIN csessions[sid].agenda_snapshot.items :
                  csessions[sid].agenda_snapshot.items[i].number = question_number
           THEN QuestionResponse_save(sid, question_number, "complete")
           ELSE /\ UNCHANGED <<csessions, responses, progress>>
                /\ last' = [op |-> "rejected", sid |-> sid, created |-> FALSE,
                            completed |-> FALSE]
        /\ UNCHANGED <<courses, workers>>
        /\ chatUnchanged

\* a QuestionResponse saved with status 'partial' (the field's default)
SavePartial ==
    \E sid \in DOMAIN csessions, question_number \in 1..MaxQuestion :
        /\ QuestionResponse_save(sid, question_number, "partial")
        /\ UNCHANGED <<courses, workers>>
        /\ chatUnchanged

\* the course agenda edited (Course.agenda is an ordinary editable field)
Edits == courses["a"].edits + courses["b"].edits + courses["c"].edits
EditAgenda ==
    /\ Edits < MaxEdits
    /\ \E c \in DOMAIN courses, agenda \in Agendas :
         /\ agenda # courses[c].agenda
         /\ courses' = [courses EXCEPT ![c].agenda = agenda, ![c].edits = @ + 1]
    /\ last' = [op |-> "edit_agenda", sid |-> 0, created |-> FALSE, completed |-> FALSE]
    /\ UNCHANGED <<csessions, responses, progress, workers>>
    /\ chatUnchanged

\* the statuses written through CourseViewSet.update_progress: the course of the
\* session (a), its child (b) and its grandchild (c)
ProgressWrites ==
    {<<1, "a", "open">>, <<1, "b", "locked">>, <<1, "b", "complete">>, <<1, "c", "locked">>}

\* CourseViewSet.update_progress
SetProgress ==
    \E w \in ProgressWrites :
      LET user == w[1]  c == w[2]  new_status == w[3] IN
        /\ progress' =
             IF <<user, c>> \notin DOMAIN progress
             THEN Put(progress, <<user, c>>, [status |-> new_status, completed_at |-> -1])
             ELSE Put(progress, <<user, c>>,
                      [status |-> new_status,
                       completed_at |-> IF new_status = "complete" THEN now
                                        ELSE progress[<<user, c>>].completed_at])
        /\ last' = [op |-> "set_progress", sid |-> 0, created |-> FALSE,
                    completed |-> FALSE]
        /\ UNCHANGED <<courses, csessions, responses, workers>>
        /\ chatUnchanged

InitCourse ==
    /\ ChatIdle
    /\ courses = [c \in Courses |->
                      [agenda |-> IF c = "a" THEN [null |-> FALSE, text |-> AgendaTest]
                                  ELSE IF c = "b" THEN [null |-> FALSE, text |-> AgendaTricky]
                                  ELSE AgendaNone,
                       parent |-> CourseParent(c), edits |-> 0]]
    /\ csessions = <<>> /\ responses = {} /\ progress = EmptyDict
    /\ workers = [w \in RequestWorkers |-> WorkerIdle]
    /\ enrollments = <<>> /\ milestones = EmptyDict /\ enrolling = EmptyDict
    /\ turns = {} /\ reply = NoReply
    /\ last = [op |-> "none", sid |-> 0, created |-> FALSE, completed |-> FALSE]

\* sessions, responses and agenda edits
NextCourse ==
    \/ \E w \in RequestWorkers : GetOrCreateLookup(w)
    \/ \E w \in RequestWorkers : GetOrCreateCreate(w)
    \/ LogResponse \/ LogQuestionResponse \/ SavePartial \/ EditAgenda

SpecCourse == InitCourse /\ [][NextCourse]_vars

\* sessions, responses and progress written through the course view
InitUnlock == InitCourse
NextUnlock ==
    \/ \E w \in RequestWorkers : GetOrCreateLookup(w)
    \/ \E w \in RequestWorkers : GetOrCreateCreate(w)
    \/ LogResponse \/ LogQuestionResponse \/ SavePartial \/ SetProgress

SpecUnlock == InitUnlock /\ [][NextUnlock]_vars

\* C4 (as claimed): at most one active CourseSession for each (user, course,
\* character_used), and a request that finds an active session returns it with
\* created = False.
C4_OneActivePerKey ==
    /\ \A i, j \in DOMAIN csessions :
          (/\ i # j
           /\ csessions[i].status = "active" /\ csessions[j].status = "active"
           /\ csessions[i].user = csessions[j].user
           /\ csessions[i].course = csessions[j].course)
          => csessions[i].character_used # csessions[j].character_used
    /\ (last.op = "get_or_create" /\ last.sid # 0 /\ ~last.created)
          => csessions[last.sid].status = "active"

\* C5 (as claimed): after every QuestionResponse.save the session's answered_questions
\* is its number of complete responses and its completion_percentage is that number
\* divided by total_questions, times 100.
C5_ProgressMatchesResponses ==
    last.op = "save_response" =>
        LET row == csessions[last.sid]
            n   == CompleteCount(responses, last.sid)
        IN  /\ row.answered_questions = n
            /\ row.completion_percentage.num * row.total_questions
                  = n * 100 * row.completion_percentage.den

\* C6 (as claimed): once a CourseSession exists, no later step changes its
\* agenda_version_hash, agenda_snapshot or total_questions.
C6_AgendaFieldsFrozen ==
    [][\A i \in DOMAIN csessions :
          /\ csessions'[i].agenda_version_hash = csessions[i].agenda_version_hash
          /\ csessions'[i].agenda_snapshot = csessions[i].agenda_snapshot
          /\ csessions'[i].total_questions = csessions[i].total_questions]_vars

\* C7: a step that takes a session from 'active' to 'completed' leaves the user's
\* progress for the course 'complete'; every direct child has progress that is not
\* 'locked' (created 'open' if missing, 'locked' made 'open', 'open' or 'complete'
\* left as it was); no other progress record changes.
C7_CompletionCascades ==
    [][\A i \in DOMAIN csessions :
          (csessions[i].status = "active" /\ csessions'[i].status = "completed") =>
            LET u    == csessions[i].user
                c    == csessions[i].course
                kids == {<<u, k>> : k \in children(c)}
            IN  /\ DOMAIN progress' = (DOMAIN progress) \cup {<<u, c>>} \cup kids
                /\ progress'[<<u, c>>].status = "complete"
                /\ \A key \in kids \ {<<u, c>>} :
                      /\ progress'[key].status # "locked"
                      /\ key \notin DOMAIN progress => progress'[key].status = "open"
                      /\ key \in DOMAIN progress =>
                            IF progress[key].status = "locked"
                            THEN progress'[key].status = "open"
                            ELSE progress'[key] = progress[key]
                /\ \A key \in (DOMAIN progress) \ (kids \cup {<<u, c>>}) :
                      progress'[key] = progress[key]]_vars

\* a session of user 1 on course a has just completed: the child b, missing before,
\* is 'open', and the grandchild c keeps the 'locked' it was given
C7_Witness ==
    /\ last.op = "save_response" /\ last.completed
    /\ csessions[last.sid].status = "completed"
    /\ csessions[last.sid].user = 1 /\ csessions[last.sid].course = "a"
    /\ <<1, "a">> \in DOMAIN progress /\ progress[<<1, "a">>].status = "complete"
    /\ <<1, "b">> \in DOMAIN progress /\ progress[<<1, "b">>].status = "open"
    /\ <<1, "c">> \in DOMAIN progress /\ progress[<<1, "c">>].status = "locked"

\* C8 (as claimed): a newly created CourseSession is 'active' with answered_questions 0,
\* completion_percentage 0.0, a set agenda_version_hash and agenda_snapshot, and
\* total_questions the number of items parsed from the course agenda.
C8_NewSessionFields ==
    (last.op = "get_or_create" /\ last.created) =>
        LET row == csessions[last.sid]
        IN  /\ row.status = "active"
            /\ row.answered_questions = 0
            /\ row.completion_percentage = Zero
            /\ row.agenda_version_hash # <<>>
            /\ ~row.agenda_snapshot.null
            /\ row.total_questions
                  = Len(parse_agenda_items(courses[row.course].agenda).items)

-----------------------------------------------------------------------------
(* SpecExpiry: the session and message services called on sessions that    *)
(* may be missing, inactive or expired (apps/chat/services.py)             *)

MaxMessages == 2    \* ChatMessage rows stored

\* "s0" is an id no session has
CalledIds == SessionIds \cup {"s0"}

\* the messages of one session, in created_at order: session.messages.all()
MessagesOf(sid) == SelectSeq(messages, LAMBDA m : m.session_id = sid)

\* ChatMessageService.get_message_history: the page returned, or found = FALSE for None
get_message_history(sid, limit, offset) ==
    IF ActiveRow(sid) /\ ~is_expired(sessions[sid])
    THEN LET all         == MessagesOf(sid)
             total_count == Len(all)
             queryset    == SubSeq(all, offset + 1, total_count)
         IN  [found |-> TRUE,
              messages |-> IF limit # 0
                           THEN SubSeq(queryset, 1, IF limit < Len(queryset) THEN limit
                                                    ELSE Len(queryset))
                           ELSE queryset,
              total_count |-> total_count,
              has_more |-> limit # 0 /\ offset + limit < total_count]
    ELSE [found |-> FALSE, messages |-> <<>>, total_count |-> 0, has_more |-> FALSE]

expiryUnchanged ==
    /\ UNCHANGED <<cache, consumer, req, svc, ws, outbox>>
    /\ UNCHANGED courseVars /\ UNCHANGED questVars /\ UNCHANGED ownerVars

Called(op, sid, returned) == [op |-> op, session_id |-> sid, returned |-> returned]

\* ChatSessionService.create_session with a one-hour TTL
ExpiryCreate ==
    /\ \E x \in SessionIds : ~sessions[x].exists
    /\ \E user_id \in Users :
         LET r == create_session(user_id, "claude_balanced", "New Chat", 1)
         IN  /\ sessions' = r[3]
             /\ last' = Called("create_session", r[1], r[2] = {})
    /\ UNCHANGED <<now, messages>>
    /\ expiryUnchanged

\* ChatSessionService.get_session_config
CallGetSessionConfig ==
    /\ \E sid \in CalledIds :
         LET r == get_session_config(sid)
         IN  /\ sessions' = r[2]
             /\ last' = Called("get_session_config", sid, r[1])
    /\ UNCHANGED <<now, messages>>
    /\ expiryUnchanged

\* ChatMessageService.add_message
CallAddMessage ==
    /\ Len(messages) < MaxMessages
    /\ \E sid \in CalledIds, role \in {"user", "assistant"} :
         LET r == add_message(sid, role)
         IN  /\ messages' = r[2]
             /\ last' = Called("add_message", sid, r[1])
    /\ UNCHANGED <<now, sessions>>
    /\ expiryUnchanged

\* ChatMessageService.get_message_history
CallGetMessageHistory ==
    /\ \E sid \in CalledIds, limit \in {0, 1}, offset \in {0, 1} :
         last' = Called("get_message_history", sid,
                        get_message_history(sid, limit, offset).found)
    /\ UNCHANGED <<now, sessions, messages>>
    /\ expiryUnchanged

\* ChatMessageService.get_conversation_context
CallGetConversationContext ==
    /\ \E sid \in CalledIds :
         last' = Called("get_conversation_context", sid, get_conversation_context(sid))
    /\ UNCHANGED <<now, sessions, messages>>
    /\ expiryUnchanged

\* ChatSessionService.update_session_config with a preset, a title or a context
CallUpdateSessionConfig ==
    /\ \E sid \in CalledIds,
          a \in {[preset_key |-> "gpt4_coding"], [title |-> "Renamed"],
                 [preset_key |-> "claude_creative", context_id |-> "coding"]} :
         LET r == update_session_config(sid, a)
         IN  /\ sessions' = r[3]
             /\ last' = Called("update_session_config", sid, r[1])
    /\ UNCHANGED <<now, messages>>
    /\ expiryUnchanged

InitExpiry == ChatIdle /\ CourseIdle /\ last = Called("none", "s0", FALSE)
NextExpiry ==
    \/ ExpiryCreate \/ CallGetSessionConfig \/ CallAddMessage \/ CallGetMessageHistory
    \/ CallGetConversationContext \/ CallUpdateSessionConfig
    \/ Tick \/ Deactivate \/ DeleteInactive

SpecExpiry == InitExpiry /\ [][NextExpiry]_vars

\* the session named does not exist, is inactive, or its expires_at has passed
Unusable(sid) ==
    \/ sid \notin SessionIds
    \/ ~sessions[sid].exists
    \/ ~sessions[sid].is_active
    \/ now > sessions[sid].expires_at

\* C11: a call of get_session_config, add_message, get_message_history,
\* get_conversation_context or update_session_config on a session that does not exist,
\* is inactive or has expired returns None (failure for update_session_config), adds
\* no message and leaves the stored configuration as it was; get_session_config
\* marks an expired session inactive.
C11_UnusableSessionRefused ==
    [][\A sid \in CalledIds :
          (/\ last'.op \in {"get_session_config", "add_message", "get_message_history",
                            "get_conversation_context", "update_session_config"}
           /\ last'.session_id = sid
           /\ Unusable(sid))
          => /\ ~last'.returned
             /\ messages' = messages
             /\ \A x \in SessionIds :
                   IF x = sid /\ last'.op = "get_session_config" /\ sessions[x].exists
                   THEN /\ sessions'[x] = [sessions[x] EXCEPT !.is_active = FALSE]
                   ELSE sessions'[x] = sessions[x]]_vars

\* add_message has just been refused on an expired, still active session that
\* already holds a message
C11_Witness ==
    /\ last.op = "add_message" /\ last.session_id = "s1" /\ ~last.returned
    /\ sessions["s1"].exists /\ sessions["s1"].is_active
    /\ now > sessions["s1"].expires_at
    /\ Len(messages) = 1

-----------------------------------------------------------------------------
(* SpecConnect: ChatStreamConsumer.connect on sessions that are created,   *)
(* expire and are deactivated                                              *)

TokenPrefix == <<"t", "o", "k", "e", "n", "=">>
Jwt(digit) == <<"j", "w", "t", digit>>

\* the query strings of the connections: no token, an empty one, tokens of the
\* users 1 and 2, a token of a user that does not exist (9), a string that is
\* no JWT, a token without the 'token=' prefix and one behind another parameter
QueryStrings ==
    {<<>>, TokenPrefix, TokenPrefix \o Jwt("1"), TokenPrefix \o Jwt("2"),
     TokenPrefix \o Jwt("9"), TokenPrefix \o <<"b", "a", "d">>, Jwt("1"),
     <<"x", "&">> \o TokenPrefix \o Jwt("1")}

\* the session ids of the URL route: a session id, an unknown one, none
RouteIds == CalledIds \cup {""}

\* connect lines 32-34: the token of the query string
TokenOf(query_string) ==
    IF StartsWith(query_string, TokenPrefix)
    THEN SubSeq(query_string, 7, Len(query_string))
    ELSE query_string

\* AccessToken(token)['user_id']: the user id of a valid token, 0 for TokenError
AccessToken(token) ==
    IF Len(token) = 4 /\ SubSeq(token, 1, 3) = <<"j", "w", "t">>
    THEN (IF token[4] = "1" THEN 1 ELSE IF token[4] = "2" THEN 2
          ELSE IF token[4] = "9" THEN 9 ELSE 0)
    ELSE 0

\* ChatStreamConsumer.authenticate_user: "true" with self.user, "false", or the
\* exception it raises. On TokenError the except clause evaluates
\* User.DoesNotExist while the local User is not yet assigned
authenticate_user(token) ==
    IF token = <<>> THEN [result |-> "false", user |-> 0]
    ELSE IF AccessToken(token) = 0 THEN [result |-> "UnboundLocalError", user |-> 0]
    ELSE IF AccessToken(token) \notin Users THEN [result |-> "false", user |-> 0]
    ELSE [result |-> "true", user |-> AccessToken(token)]

\* ChatStreamConsumer.validate_session_access: <<allowed, table>>
validate_session_access(session_id, user) ==
    IF session_id = "" \/ user = 0 THEN <<FALSE, sessions>>
    ELSE LET r == get_session_config(session_id)
         IN  IF ~r[1] THEN <<FALSE, r[2]>>
             ELSE IF sessions[session_id].user_id # user THEN <<FALSE, r[2]>>
             ELSE <<TRUE, r[2]>>

\* what a connect call did
Connected(query_string, session_id, accepted, joined, sent, close_code, raised) ==
    [op |-> "connect", query_string |-> query_string, session_id |-> session_id,
     accepted |-> accepted, joined |-> joined, sent |-> sent,
     close_code |-> close_code, raised |-> raised]

\* ChatStreamConsumer.connect
Connect ==
    /\ \E query_string \in QueryStrings, session_id \in RouteIds :
         LET auth == authenticate_user(TokenOf(query_string)) IN
         IF auth.result = "UnboundLocalError"
         THEN /\ sessions' = sessions
              /\ last' = Connected(query_string, session_id, FALSE, FALSE, "", 0,
                                   "UnboundLocalError")
         ELSE IF auth.result = "false"
         THEN /\ sessions' = sessions
              /\ last' = Connected(query_string, session_id, FALSE, FALSE, "", 4001, "")
         ELSE LET access == validate_session_access(session_id, auth.user) IN
              /\ sessions' = access[2]
              /\ last' = IF access[1]
                         THEN Connected(query_string, session_id, TRUE, TRUE,
                                        "connection_established", 0, "")
                         ELSE Connected(query_string, session_id, FALSE, FALSE, "",
                                        4003, "")
    /\ UNCHANGED <<now, messages>>
    /\ expiryUnchanged

InitConnect == ChatIdle /\ CourseIdle /\ last = [op |-> "none"]
NextConnect == ExpiryCreate \/ Tick \/ Deactivate \/ DeleteInactive \/ Connect
SpecConnect == InitConnect /\ [][NextConnect]_vars

\* the token is a valid JWT of an existing user, and the session exists, is
\* active, is not expired and is owned by that user
MayConnect(query_string, session_id) ==
    /\ AccessToken(TokenOf(query_string)) \in Users
    /\ session_id \in SessionIds
    /\ sessions[session_id].exists /\ sessions[session_id].is_active
    /\ ~(now > sessions[session_id].expires_at)
    /\ sessions[session_id].user_id = AccessToken(TokenOf(query_string))

\* C15: ChatStreamConsumer accepts a connection and sends connection_established
\* only if the token is a valid JWT of an existing user and the session exists, is
\* active, is not expired and is owned by that user; otherwise it closes with code
\* 4001 or 4003 and neither accepts nor joins the session group.
C15_AcceptsOnlyOwnerElseCloses ==
    [][last'.op = "connect"
       => /\ (last'.accepted \/ last'.sent = "connection_established")
             => MayConnect(last'.query_string, last'.session_id)
          /\ ~MayConnect(last'.query_string, last'.session_id)
             => /\ last'.close_code \in {4001, 4003}
                /\ ~last'.accepted /\ ~last'.joined]_vars

-----------------------------------------------------------------------------
(* SpecControl: quick replies of generate_control_data for sessions whose  *)
(* custom control instructions are set through update_session_config      *)

\* a string of n characters
Repeat(c, n) == [i \in 1..n |-> c]

\* the custom_control_instructions passed to update_session_config: two entries
\* to be stripped, a blank one, six entries, entries of 40 and of 41 characters
ControlInstructions ==
    {<< <<"y">>, <<" ", "n", " ">> >>,
     << <<" ">> >>,
     << <<"a">>, <<"b">>, <<"c">>, <<"d">>, <<"e">>, <<"f">> >>,
     << Repeat("x", 40) >>,
     << Repeat("x", 41) >>}

\* the update_session_config calls: with or without a preset
ControlUpdates ==
    {[preset_key |-> "gpt4_coding", custom_control_instructions |-> ins] :
        ins \in ControlInstructions}
    \cup {[custom_control_instructions |-> ins] : ins \in ControlInstructions}

\* answers of the control model that break the tool schema as well: seven
\* replies, an empty one and one of 41 characters among them
LongOutcomes ==
    ControlOutcomes
    \cup {[kind |-> "ok",
           args |-> [emote |-> "joy",
                     quick_replies |-> << <<>>, Repeat("x", 41), <<"a">>, Repeat("x", 40),
                                          <<"b">>, <<"c">>, <<"d">> >>]]}

\* ChatSessionService.update_session_config with custom control instructions
ControlUpdate ==
    /\ \E sid \in SessionIds, a \in ControlUpdates :
         LET r == update_session_config(sid, a)
         IN  /\ sessions' = r[3]
             /\ last' = [op |-> "update_session_config", success |-> r[1]]
    /\ UNCHANGED <<now, messages>>
    /\ expiryUnchanged

\* ChatControlService.generate_control_data with the session's configuration
ControlGenerate ==
    /\ \E sid \in SessionIds, request_emote \in BOOLEAN,
          request_quick_responses \in BOOLEAN, outcome \in LongOutcomes :
         /\ get_session_config(sid)[1]
         /\ LET r == generate_control_data(sessions[sid].context_config, request_emote,
                                           request_quick_responses, outcome)
            IN  last' = [op |-> "generate_control_data", request_emote |-> request_emote,
                         from_custom |-> AnswersFromCustom(sessions[sid].context_config,
                                                           request_emote,
                                                           request_quick_responses),
                         kind |-> r.kind, data |-> r.data, errors |-> r.errors]
    /\ UNCHANGED <<now, sessions, messages>>
    /\ expiryUnchanged

InitControl == ChatIdle /\ CourseIdle /\ last = [op |-> "none"]
NextControl == ExpiryCreate \/ ControlUpdate \/ ControlGenerate \/ Tick
SpecControl == InitControl /\ [][NextControl]_vars

\* C16: whenever control data returned by generate_control_data carries quick
\* replies, the list has at most 5 entries and every entry is a string of 1 to 40
\* characters, whether the replies come from the control model or from the
\* session's custom control instructions.
C16_QuickRepliesBounded ==
    (last.op = "generate_control_data" /\ last.kind = "done" /\ last.errors = {})
    => /\ Len(last.data.quick_replies) <= 5
       /\ \A i \in DOMAIN last.data.quick_replies :
            /\ 1 <= Len(last.data.quick_replies[i])
            /\ Len(last.data.quick_replies[i]) <= 40

-----------------------------------------------------------------------------
(* SpecOwner: the requests of CourseSessionViewSet, each made by a user    *)
(* for a session id that may be another user's                             *)

MaxTurns == 2    \* ConversationTurn rows created

\* the session ids requests name: those of rows that exist or may come to exist
SessionPks == 1..MaxSessions

\* the queryset with the filter on the user left out
get_queryset_All(user) == DOMAIN csessions

\* CourseSessionViewSet.get_queryset
get_queryset(user) == {i \in DOMAIN csessions : csessions[i].user = user}

\* get_object: the row with this pk in the queryset, or Http404
Found(user, pk) == pk \in get_queryset(user)

\* the request answered and the sessions whose data the response carries
Answered(action, user, pk, status, returned) ==
    [action |-> action, user |-> user, pk |-> pk, status |-> status,
     returned |-> returned]

ownerOthers ==
    /\ UNCHANGED chatVars /\ UNCHANGED questVars
    /\ UNCHANGED <<courses, workers>>

\* the requests of get_or_create_active: those of authenticated users
ActiveRequests == {r \in SessionRequests : r.user # Anonymous}

\* CourseSessionViewSet.get_or_create_active, as one request
ViewGetOrCreateActive ==
    /\ \E r \in ActiveRequests :
        LET user == r.user  course_id == r.course_id  character == r.character IN
          IF course_id = ""
          THEN /\ reply' = Answered("get_or_create_active", user, 0, "400", {})
               /\ UNCHANGED <<csessions, last>>
          ELSE IF course_id \notin DOMAIN courses
          THEN /\ reply' = Answered("get_or_create_active", user, 0, "404", {})
               /\ UNCHANGED <<csessions, last>>
          ELSE IF ActiveSessions(user, course_id, character) # {}
          THEN /\ reply' = Answered("get_or_create_active", user,
                                   FirstActive(user, course_id, character), "200",
                                   {FirstActive(user, course_id, character)})
               /\ UNCHANGED <<csessions, last>>
          ELSE /\ Len(csessions) < MaxSessions
               /\ csessions' = Append(csessions,
                                      CourseSession_save(NewCourseSession(user, course_id,
                                                                          character)))
               /\ reply' = Answered("get_or_create_active", user, Len(csessions) + 1,
                                   "201", {Len(csessions) + 1})
               /\ last' = [op |-> "get_or_create", sid |-> Len(csessions) + 1,
                           created |-> TRUE, completed |-> FALSE]
    /\ UNCHANGED <<responses, progress, turns>>
    /\ ownerOthers

\* list (ModelViewSet.list over get_queryset)
ViewList ==
    /\ \E user \in Users :
         reply' = Answered("list", user, 0, "200", get_queryset(user))
    /\ UNCHANGED <<csessions, responses, progress, turns, last>>
    /\ ownerOthers

\* CourseSessionViewSet.retrieve
ViewRetrieve ==
    /\ \E user \in Users, pk \in SessionPks :
         reply' = IF Found(user, pk) THEN Answered("retrieve", user, pk, "200", {pk})
                 ELSE Answered("retrieve", user, pk, "404", {})
    /\ UNCHANGED <<csessions, responses, progress, turns, last>>
    /\ ownerOthers

\* the question numbers of log_response requests; 0 is a request without one
LoggedQuestions == {0, 1, 2}

\* CourseSessionViewSet.log_response
ViewLogResponse ==
    /\ \E user \in Users, pk \in SessionPks, question_number \in LoggedQuestions :
         IF ~Found(user, pk)
         THEN /\ reply' = Answered("log_response", user, pk, "404", {})
              /\ UNCHANGED <<csessions, responses, progress, last>>
         ELSE IF question_number = 0
         THEN /\ reply' = Answered("log_response", user, pk, "400", {})
              /\ UNCHANGED <<csessions, responses, progress, last>>
         ELSE /\ QuestionResponse_save(pk, question_number, "complete")
              /\ reply' = Answered("log_response", user, pk,
                                  IF last'.created THEN "201" ELSE "200", {pk})
    /\ UNCHANGED turns
    /\ ownerOthers

\* session.conversation
TurnsOf(pk) == {t \in turns : t.session = pk}

\* session.conversation.order_by('-turn_number').first(), plus one
NextTurnNumber(pk) ==
    IF TurnsOf(pk) = {} THEN 1
    ELSE (CHOOSE t \in TurnsOf(pk) : \A u \in TurnsOf(pk) : u.turn_number <= t.turn_number)
             .turn_number + 1

\* session.responses.filter(question_number=...).first(): its question number, 0 for None
QuestionContext(pk, question_context_number) ==
    IF question_context_number # 0
       /\ \E r \in responses : r.session = pk /\ r.question_number = question_context_number
    THEN question_context_number ELSE 0

\* the bodies of log_conversation_turn requests: role "" is a request without
\* role, turn_number 0 one without turn_number, question_context_number 0 one
\* without it
TurnRequests ==
    {[role |-> "", turn_number |-> 0, question_context_number |-> 0],
     [role |-> "user", turn_number |-> 0, question_context_number |-> 1],
     [role |-> "user", turn_number |-> 1, question_context_number |-> 0]}

\* CourseSessionViewSet.log_conversation_turn
ViewLogConversationTurn ==
    /\ \E user \in Users, pk \in SessionPks, data \in TurnRequests :
         LET role == data.role  given == data.turn_number
             question_context_number == data.question_context_number IN
         IF ~Found(user, pk)
         THEN /\ reply' = Answered("log_conversation_turn", user, pk, "404", {})
              /\ turns' = turns
         ELSE IF role = ""
         THEN /\ reply' = Answered("log_conversation_turn", user, pk, "400", {})
              /\ turns' = turns
         ELSE LET turn_number == IF given = 0 THEN NextTurnNumber(pk) ELSE given IN
              IF \E t \in TurnsOf(pk) : t.turn_number = turn_number
              THEN /\ reply' = Answered("log_conversation_turn", user, pk, "500", {})
                   /\ turns' = turns
              ELSE /\ Cardinality(turns) < MaxTurns
                   /\ turns' = turns \cup
                        {[session |-> pk, turn_number |-> turn_number, role |-> role,
                          question_context |-> QuestionContext(pk, question_context_number)]}
                   /\ reply' = Answered("log_conversation_turn", user, pk, "201", {pk})
    /\ UNCHANGED <<csessions, responses, progress, last>>
    /\ ownerOthers

InitOwner ==
    /\ InitCourse

NextOwner ==
    \/ ViewGetOrCreateActive \/ ViewList \/ ViewRetrieve
    \/ ViewLogResponse \/ ViewLogConversationTurn

SpecOwner == InitOwner /\ [][NextOwner]_vars

\* C14: no request made by a user through CourseSessionViewSet (list, retrieve,
\* log_response, log_conversation_turn, get_or_create_active) returns data of, or
\* changes, a CourseSession, QuestionResponse or ConversationTurn of another
\* user; the other users' course progress is left alone as well.
C14_OnlyOwnSessions ==
    [][/\ \A i \in reply'.returned : csessions'[i].user = reply'.user
       /\ \A i \in DOMAIN csessions :
            csessions[i].user # reply'.user
            => /\ i \in DOMAIN csessions' /\ csessions'[i] = csessions[i]
               /\ {r \in responses' : r.session = i} = {r \in responses : r.session = i}
               /\ {t \in turns' : t.session = i} = {t \in turns : t.session = i}
       /\ \A k \in DOMAIN progress \cup DOMAIN progress' :
            k[1] # reply'.user
            => k \in DOMAIN progress /\ k \in DOMAIN progress' /\ progress'[k] = progress[k]
      ]_vars

\* user 1 asked to log a response on the session of user 2 and got 404, while
\* user 2 has logged a response and a turn there
C14_Witness ==
    /\ reply.action = "log_response" /\ reply.status = "404" /\ reply.user = 1
    /\ reply.pk \in DOMAIN csessions /\ csessions[reply.pk].user = 2
    /\ \E r \in responses : r.session = reply.pk
    /\ \E t \in turns : t.session = reply.pk

-----------------------------------------------------------------------------
(* SpecQuest: apps/quests (QuestEnrollment, MilestoneProgress): enrolling  *)
(* in quest templates and completing milestones                            *)

MaxEnrollments == 2    \* QuestEnrollment rows created

\* the quest templates and the orders of their milestone templates; "t0" is a
\* template the enroll action does not find
QuestTemplates == {"t1", "t2"}
milestone_templates(t) == IF t = "t1" THEN <<1, 2>> ELSE <<1>>

\* the enroll requests made: user and template both vary
EnrollRequests == {<<1, "t1">>, <<2, "t1">>, <<1, "t2">>, <<1, "t0">>}
EnrollWorkers == {"e1", "e2"}
EnrollIdle == [pc |-> "idle", via |-> "enroll", user |-> 0, quest_template |-> "t0",
               enrollment |-> 0, i |-> 0]

\* QuestEnrollment.objects.filter(user=..., quest_template=...)
EnrollmentsOf(user, t) ==
    {e \in DOMAIN enrollments :
        enrollments[e].user = user /\ enrollments[e].quest_template = t}

\* no constraint on the table
UniqueViolation_None(user, t) == FALSE

\* unique_together = ['user', 'quest_template']: the insert is refused
UniqueViolation(user, t) == EnrollmentsOf(user, t) # {}

\* what the last step did: op "enroll" (the action) or
\* "enroll_user_in_quest_template" (a direct call) is the step a request starts
\* with, its first lookup included; "enroll_step" is a later step of a request
Enrolled(op, user, t, result) ==
    [op |-> op, user |-> user, quest_template |-> t, result |-> result]

questOthers == UNCHANGED chatVars /\ UNCHANGED courseVars /\ UNCHANGED ownerVars

\* rows stored plus rows a request is about to store
EnrollReserved ==
    Len(enrollments) + Cardinality({w \in EnrollWorkers : enrolling[w].pc \in {"helper", "create"}})

\* the rows the helper creates
NewMilestone == [status |-> "not_started", started_at |-> -1, completed_at |-> -1]
NewEnrollment(user, t) ==
    [user |-> user, quest_template |-> t, status |-> "active", completed_at |-> -1]

\* QuestTemplateViewSet.enroll up to its call of the helper, or a direct call of
\* enroll_user_in_quest_template, up to its own lookup
EnrollStart(w) ==
    /\ enrolling[w].pc = "idle"
    /\ \E via \in {"enroll", "enroll_user_in_quest_template"}, r \in EnrollRequests :
        LET user == r[1]  t == r[2] IN
         /\ (via # "enroll") => t \in QuestTemplates
         /\ IF t \notin QuestTemplates
            THEN /\ enrolling' = enrolling
                 /\ last' = Enrolled(via, user, t, "404")
            ELSE IF EnrollmentsOf(user, t) # {}
            THEN /\ enrolling' = enrolling
                 /\ last' = Enrolled(via, user, t,
                                     IF via = "enroll" THEN "400" ELSE "existing")
            ELSE /\ EnrollReserved < MaxEnrollments
                 /\ enrolling' = [enrolling EXCEPT ![w] =
                        [pc |-> IF via = "enroll" THEN "helper" ELSE "create",
                         via |-> via, user |-> user, quest_template |-> t,
                         enrollment |-> 0, i |-> 0]]
                 /\ last' = Enrolled(via, user, t, "pending")
    /\ UNCHANGED <<enrollments, milestones>>
    /\ questOthers

\* enroll_user_in_quest_template called by the enroll action: its own lookup
EnrollHelperLookup(w) ==
    /\ enrolling[w].pc = "helper"
    /\ LET r == enrolling[w] IN
         IF EnrollmentsOf(r.user, r.quest_template) # {}
         THEN /\ enrolling' = [enrolling EXCEPT ![w] = EnrollIdle]
              /\ last' = Enrolled("enroll_step", r.user, r.quest_template, "existing")
         ELSE /\ enrolling' = [enrolling EXCEPT ![w].pc = "create"]
              /\ last' = Enrolled("enroll_step", r.user, r.quest_template, "pending")
    /\ UNCHANGED <<enrollments, milestones>>
    /\ questOthers

\* QuestEnrollment.objects.create(user=..., quest_template=..., status='active')
EnrollCreate(w) ==
    /\ enrolling[w].pc = "create"
    /\ LET r == enrolling[w] IN
         IF UniqueViolation(r.user, r.quest_template)
         THEN /\ enrollments' = enrollments
              /\ enrolling' = [enrolling EXCEPT ![w] = EnrollIdle]
              /\ last' = Enrolled("enroll_step", r.user, r.quest_template, "IntegrityError")
         ELSE /\ enrollments' = Append(enrollments,
                                       NewEnrollment(r.user, r.quest_template))
              /\ enrolling' = [enrolling EXCEPT ![w].pc = "progress",
                                                ![w].enrollment = Len(enrollments) + 1,
                                                ![w].i = 1]
              /\ last' = Enrolled("enroll_step", r.user, r.quest_template, "pending")
    /\ UNCHANGED milestones
    /\ questOthers

\* the loop of enroll_user_in_quest_template: one MilestoneProgress.objects.create
EnrollProgress(w) ==
    /\ enrolling[w].pc = "progress"
    /\ LET r      == enrolling[w]
           orders == milestone_templates(r.quest_template)
       IN  /\ milestones' = Put(milestones, <<r.enrollment, orders[r.i]>>, NewMilestone)
           /\ IF r.i = Len(orders)
              THEN /\ enrolling' = [enrolling EXCEPT ![w] = EnrollIdle]
                   /\ last' = Enrolled("enroll_step", r.user, r.quest_template, "201")
              ELSE /\ enrolling' = [enrolling EXCEPT ![w].i = r.i + 1]
                   /\ last' = Enrolled("enroll_step", r.user, r.quest_template, "pending")
    /\ UNCHANGED enrollments
    /\ questOthers

\* enrollment.milestone_progress.exclude(status='completed').exists()
Unfinished(table, e) == \E k \in DOMAIN table : k[1] = e /\ table[k].status # "completed"

\* MilestoneProgress.can_be_started: the template's prerequisite is the previous one
can_be_started(k) ==
    \A p \in DOMAIN milestones :
        (p[1] = k[1] /\ p[2] = k[2] - 1) => milestones[p].status = "completed"

Marked(op, e) ==
    Enrolled(op, enrollments[e].user, enrollments[e].quest_template, "200")

\* MilestoneProgressViewSet.mark_in_progress
MarkInProgress ==
    /\ \E k \in DOMAIN milestones :
         /\ can_be_started(k)
         /\ milestones' = [milestones EXCEPT
                             ![k].status = "in_progress",
                             ![k].started_at = IF @ = -1 THEN now ELSE @]
         /\ last' = Marked("mark_in_progress", k[1])
    /\ UNCHANGED <<enrollments, enrolling>>
    /\ questOthers

\* MilestoneProgressViewSet.mark_complete
MarkComplete ==
    /\ \E k \in DOMAIN milestones :
         LET saved == [milestones EXCEPT
                          ![k].status = "completed",
                          ![k].completed_at = IF @ = -1 THEN now ELSE @]
         IN  /\ milestones' = saved
             /\ enrollments' =
                  IF ~Unfinished(saved, k[1])
                  THEN [enrollments EXCEPT ![k[1]].status = "completed",
                                           ![k[1]].completed_at = now]
                  ELSE enrollments
             /\ last' = Marked("mark_complete", k[1])
    /\ UNCHANGED enrolling
    /\ questOthers

\* PATCH/PUT through MilestoneProgressUpdateSerializer.update
PatchStatus ==
    /\ \E k \in DOMAIN milestones,
          new_status \in {"not_started", "in_progress", "completed"} :
         LET instance  == milestones[k]
             changed   == new_status # instance.status
             starts    == changed /\ new_status = "in_progress" /\ instance.started_at = -1
             completes == changed /\ ~starts /\ new_status = "completed"
                          /\ instance.completed_at = -1
         IN  /\ enrollments' =
                  IF completes /\ ~Unfinished(milestones, k[1])
                  THEN [enrollments EXCEPT ![k[1]].status = "completed",
                                           ![k[1]].completed_at = now]
                  ELSE enrollments
             /\ milestones' = [milestones EXCEPT
                                 ![k].status = new_status,
                                 ![k].started_at = IF starts THEN now ELSE @,
                                 ![k].completed_at = IF completes THEN now ELSE @]
             /\ last' = Marked("patch", k[1])
    /\ UNCHANGED enrolling
    /\ questOthers

\* QuestEnrollmentViewSet.pause / resume
PauseResume ==
    /\ \E e \in DOMAIN enrollments, status \in {"paused", "active"} :
         /\ enrollments' = [enrollments EXCEPT ![e].status = status]
         /\ last' = Marked(IF status = "paused" THEN "pause" ELSE "resume", e)
    /\ UNCHANGED <<milestones, enrolling>>
    /\ questOthers

InitQuest ==
    /\ ChatIdle
    /\ courses = EmptyDict /\ csessions = <<>> /\ responses = {}
    /\ progress = EmptyDict /\ workers = EmptyDict
    /\ enrollments = <<>> /\ milestones = EmptyDict
    /\ enrolling = [w \in EnrollWorkers |-> EnrollIdle]
    /\ turns = {} /\ reply = NoReply
    /\ last = Enrolled("none", 0, "t0", "200")

NextQuest ==
    \/ \E w \in EnrollWorkers : EnrollStart(w)
    \/ \E w \in EnrollWorkers : EnrollHelperLookup(w)
    \/ \E w \in EnrollWorkers : EnrollCreate(w)
    \/ \E w \in EnrollWorkers : EnrollProgress(w)
    \/ MarkComplete \/ PauseResume

SpecQuest == InitQuest /\ [][NextQuest]_vars

\* SpecMilestone: the milestone actions on enrollments made before: user 1 in
\* "t1" (two milestones), user 2 in "t2" (one milestone)

InitMilestone ==
    /\ ChatIdle
    /\ courses = EmptyDict /\ csessions = <<>> /\ responses = {}
    /\ progress = EmptyDict /\ workers = EmptyDict
    /\ enrollments = <<NewEnrollment(1, "t1"), NewEnrollment(2, "t2")>>
    /\ milestones = [k \in {<<1, 1>>, <<1, 2>>, <<2, 1>>} |-> NewMilestone]
    /\ enrolling = [w \in EnrollWorkers |-> EnrollIdle]
    /\ turns = {} /\ reply = NoReply
    /\ last = Enrolled("none", 0, "t0", "200")

NextMilestone == MarkInProgress \/ MarkComplete \/ PatchStatus \/ PauseResume

SpecMilestone == InitMilestone /\ [][NextMilestone]_vars

\* C12: there is at most one QuestEnrollment per (user, quest_template) whatever
\* the interleaving of enroll requests and enroll_user_in_quest_template calls,
\* and a request or call made for a template the user is already enrolled in
\* creates no QuestEnrollment and no MilestoneProgress: the enroll action answers
\* 400 and the helper returns the existing enrollment.
C12_OneEnrollmentPerKey ==
    /\ [](\A i, j \in DOMAIN enrollments :
            (/\ enrollments[i].user = enrollments[j].user
             /\ enrollments[i].quest_template = enrollments[j].quest_template) => i = j)
    /\ [][(/\ last'.op \in {"enroll", "enroll_user_in_quest_template"}
           /\ EnrollmentsOf(last'.user, last'.quest_template) # {})
          => /\ last'.result = IF last'.op = "enroll" THEN "400" ELSE "existing"
             /\ enrollments' = enrollments
             /\ milestones' = milestones]_vars

\* a second request for an enrollment whose milestones exist was answered 400,
\* and another enrollment was made as well
C12_Witness ==
    /\ last.op = "enroll" /\ last.result = "400"
    /\ Len(enrollments) = 2
    /\ \E e \in EnrollmentsOf(last.user, last.quest_template) :
          \E k \in DOMAIN milestones : k[1] = e

\* C13: when mark_complete or a PATCH/PUT status update sets the last
\* MilestoneProgress of an enrollment that is not 'completed' to 'completed',
\* the enrollment's status becomes 'completed' and its completed_at is set.
C13_LastMilestoneCompletesQuest ==
    [][\A e \in DOMAIN enrollments :
          (/\ last'.op \in {"mark_complete", "patch"}
           /\ enrollments[e].status # "completed"
           /\ Unfinished(milestones, e)
           /\ ~Unfinished(milestones', e))
          => /\ enrollments'[e].status = "completed"
             /\ enrollments'[e].completed_at # -1]_vars
====
